---- MODULE Spec2Model ----
(***************************************************************************)
(* Model of psd-mcp-server (src/src/index.ts, first server version, lines  *)
(* 1-1735): the layer-tree builder, the two colour converters, the colour  *)
(* harvester and the layer index (name lookup, depth-limited listing).     *)
(*                                                                         *)
(* Conventions                                                             *)
(*  - a JavaScript string is a sequence of one-character strings;          *)
(*  - an optional value (T | undefined | null) is a sequence of length 0   *)
(*    or 1: <<>> is undefined/null, <<v>> is the value v;                  *)
(*  - a JavaScript object is a record whose DOMAIN is the set of the       *)
(*    properties it carries ("f" in obj  ==  "f" \in DOMAIN obj);          *)
(*  - a fractional number read from the file is an integer count of        *)
(*    1/FP units; a number computed by the program is [nan, v] so that     *)
(*    NaN (arithmetic on a missing property) is a value of its own.        *)
(***************************************************************************)
EXTENDS Integers, Sequences, FiniteSets, TLC

VARIABLES
    psd,        \* the decoded content of the source file (readPsd's result)
    request,    \* the operation last requested, with its arguments
    response    \* what that operation returned

vars == <<psd, request, response>>

(***************************************************************************)
(* Bounds of the model                                                     *)
(***************************************************************************)
FP == 4             \* resolution of fractional inputs: values are k/FP
LS == 10000         \* resolution of the fixed-point Lab arithmetic
MaxNodes == 4       \* layers of a document of the index specification
MaxKnots == 3       \* knots of one sub-path of a vector mask
MaxLen == 3         \* characters of a layer name given to sanitizeFilename
MaxHero == 3        \* layers of the scope of the hero classifier
MaxWide == 6        \* layers of a flat document of the index specification

(***************************************************************************)
(* Strings                                                                 *)
(***************************************************************************)
LowerLetters == <<"a","b","c","d","e","f","g","h","i","j","k","l","m",
                  "n","o","p","q","r","s","t","u","v","w","x","y","z">>
UpperLetters == <<"A","B","C","D","E","F","G","H","I","J","K","L","M",
                  "N","O","P","Q","R","S","T","U","V","W","X","Y","Z">>

UpperChar(ch) ==
    IF \E i \in 1..26 : LowerLetters[i] = ch
    THEN UpperLetters[CHOOSE i \in 1..26 : LowerLetters[i] = ch]
    ELSE ch

LowerChar(ch) ==
    IF \E i \in 1..26 : UpperLetters[i] = ch
    THEN LowerLetters[CHOOSE i \in 1..26 : UpperLetters[i] = ch]
    ELSE ch

toUpperCase(s) == [i \in 1..Len(s) |-> UpperChar(s[i])]
toLowerCase(s) == [i \in 1..Len(s) |-> LowerChar(s[i])]

\* String.prototype.includes
includes(s, q) ==
    \E i \in 0..(Len(s) - Len(q)) : SubSeq(s, i + 1, i + Len(q)) = q

\* String.prototype.padStart(2, "0")
padStart2(s) == IF Len(s) < 2 THEN <<"0">> \o s ELSE s

(***************************************************************************)
(* Numbers                                                                 *)
(***************************************************************************)
Num(v) == [nan |-> FALSE, v |-> v]
NaN    == [nan |-> TRUE,  v |-> 0]

\* Math.round(n/d) for d > 0: the nearest integer, ties towards +infinity
Round(n, d) == (2 * n + d) \div (2 * d)

\* the JavaScript remainder: the sign of the dividend
JsRem(i, m) == IF i >= 0 THEN i % m ELSE -((-i) % m)

\* Math.max(0, Math.min(255, x)); both propagate NaN
Clamp255(x) ==
    IF x.nan THEN NaN
    ELSE IF x.v < 0 THEN Num(0) ELSE IF x.v > 255 THEN Num(255) ELSE x

HexDigits == <<"0","1","2","3","4","5","6","7","8","9","a","b","c","d","e","f">>

RECURSIVE NatToString16(_)
NatToString16(n) ==
    IF n < 16 THEN <<HexDigits[n + 1]>>
    ELSE NatToString16(n \div 16) \o <<HexDigits[(n % 16) + 1]>>

\* Number.prototype.toString(16) of an integer-valued number or NaN
toString16(x) ==
    IF x.nan THEN <<"N", "a", "N">>
    ELSE IF x.v < 0 THEN <<"-">> \o NatToString16(-x.v)
    ELSE NatToString16(x.v)

(***************************************************************************)
(* anyColorToHex  (index.ts 401-534)                                       *)
(***************************************************************************)
\* typeof color.f === "number"
IsNumber(c, f) == f \in DOMAIN c

\* Math.round(color.f * 255)
FracChannel(c, f) == IF IsNumber(c, f) THEN Num(Round(c[f] * 255, FP)) ELSE NaN

\* Math.round(color.f)
IntChannel(c, f) == IF IsNumber(c, f) THEN Num(Round(c[f], FP)) ELSE NaN

\* Math.round((1 - color.k) * 255), three times
GrayChannels(c) ==
    LET gray == Num(Round((FP - c.k) * 255, FP)) IN <<gray, gray, gray>>

\* the HSB sector algorithm, lines 429-473; h in degrees, s and b fractions
HsbChannels(c) ==
    LET fd == 60 * FP                       \* h * 6 = c.h / fd
        i  == c.h \div fd                   \* Math.floor(h * 6)
        fn == c.h - i * fd                  \* f = fn / fd
        s  == c.s
        v  == c.b
        V  == Num(Round(255 * v, FP))
        P  == Num(Round(255 * v * (FP - s), FP * FP))
        Q  == Num(Round(255 * v * (fd * FP - fn * s), FP * FP * fd))
        T  == Num(Round(255 * v * (fd * FP - (fd - fn) * s), FP * FP * fd))
        k  == JsRem(i, 6)
    IN  CASE k = 0 -> <<V, T, P>>
          [] k = 1 -> <<Q, V, P>>
          [] k = 2 -> <<P, V, T>>
          [] k = 3 -> <<P, Q, V>>
          [] k = 4 -> <<T, P, V>>
          [] k = 5 -> <<V, P, Q>>
          [] OTHER -> <<Num(0), Num(0), Num(0)>>

\* the simplified Lab conversion, lines 478-512, in fixed point with LS
\* units per 1; color.b is read without a typeof test
LabCube(x) == (((x * x) \div LS) * x) \div LS
LabF(x) ==
    IF LabCube(x) > (8856 * LS) \div 1000000
    THEN LabCube(x)
    ELSE ((x - (16 * LS) \div 116) * 1000) \div 7787
LabOut(xr, yr, zr, mx, my, mz) ==
    LET lin == ((xr * mx + yr * my + zr * mz) \div 10000) * 255
        cl  == IF lin < 0 THEN 0 ELSE IF lin > 255 * LS THEN 255 * LS ELSE lin
    IN  Num(Round(cl, LS))
LabChannels(c) ==
    IF ~IsNumber(c, "b") THEN <<NaN, NaN, NaN>>
    ELSE
    LET y  == ((c.l + 16 * FP) * LS) \div (116 * FP)
        x  == (c.a * LS) \div (500 * FP) + y
        z  == y - (c.b * LS) \div (200 * FP)
        xr == (LabF(x) * 9505) \div 10000
        yr == LabF(y)
        zr == (LabF(z) * 10888) \div 10000
    IN  << LabOut(xr, yr, zr, 32406, -15372, -4986),
           LabOut(xr, yr, zr, -9689, 18758, 415),
           LabOut(xr, yr, zr, 557, -2040, 10570) >>

\* Math.round(255 * (1 - color.f) * (1 - color.k))
CmykChannel(c, f) == Num(Round(255 * (FP - c[f]) * (FP - c.k), FP * FP))

\* lines 529-533: clamp, format, upper-case
FormatHex(rgb) ==
    toUpperCase(<<"#">> \o padStart2(toString16(Clamp255(rgb[1])))
                        \o padStart2(toString16(Clamp255(rgb[2])))
                        \o padStart2(toString16(Clamp255(rgb[3]))))

\* the grayscale test without its look at the c field
ColorBranch_GrayIgnoresC(c) ==
    IF IsNumber(c, "fr") THEN "frgb"
    ELSE IF IsNumber(c, "r") THEN "rgb"
    ELSE IF IsNumber(c, "k") THEN "gray"
    ELSE IF IsNumber(c, "h") /\ IsNumber(c, "s") /\ IsNumber(c, "b") THEN "hsb"
    ELSE IF IsNumber(c, "l") /\ IsNumber(c, "a") THEN "lab"
    ELSE IF IsNumber(c, "c") /\ IsNumber(c, "m") /\ IsNumber(c, "y")
            /\ IsNumber(c, "k") THEN "cmyk"
    ELSE "none"

\* the branch anyColorToHex takes, in the order of its else-if chain
ColorBranch(c) ==
    IF IsNumber(c, "fr") THEN "frgb"
    ELSE IF IsNumber(c, "r") THEN "rgb"
    ELSE IF IsNumber(c, "k") /\ ~("c" \in DOMAIN c) THEN "gray"
    ELSE IF IsNumber(c, "h") /\ IsNumber(c, "s") /\ IsNumber(c, "b") THEN "hsb"
    ELSE IF IsNumber(c, "l") /\ IsNumber(c, "a") THEN "lab"
    ELSE IF IsNumber(c, "c") /\ IsNumber(c, "m") /\ IsNumber(c, "y")
            /\ IsNumber(c, "k") THEN "cmyk"
    ELSE "none"

\* the fall-through of the chain answering black instead of null
anyColorToHex_UnknownIsBlack(col) ==
    IF col = <<>> THEN <<>>
    ELSE
    LET c == col[1]
        b == ColorBranch(c)
    IN  CASE b = "frgb" -> FormatHex(<<FracChannel(c, "fr"), FracChannel(c, "fg"),
                                       FracChannel(c, "fb")>>)
          [] b = "rgb"  -> FormatHex(<<IntChannel(c, "r"), IntChannel(c, "g"),
                                       IntChannel(c, "b")>>)
          [] b = "gray" -> FormatHex(GrayChannels(c))
          [] b = "hsb"  -> FormatHex(HsbChannels(c))
          [] b = "lab"  -> FormatHex(LabChannels(c))
          [] b = "cmyk" -> FormatHex(<<CmykChannel(c, "c"), CmykChannel(c, "m"),
                                       CmykChannel(c, "y")>>)
          [] OTHER      -> FormatHex(<<Num(0), Num(0), Num(0)>>)

anyColorToHex(col) ==
    IF col = <<>> THEN <<>>
    ELSE
    LET c == col[1]
        b == ColorBranch(c)
    IN  CASE b = "frgb" -> FormatHex(<<FracChannel(c, "fr"), FracChannel(c, "fg"),
                                       FracChannel(c, "fb")>>)
          [] b = "rgb"  -> FormatHex(<<IntChannel(c, "r"), IntChannel(c, "g"),
                                       IntChannel(c, "b")>>)
          [] b = "gray" -> FormatHex(GrayChannels(c))
          [] b = "hsb"  -> FormatHex(HsbChannels(c))
          [] b = "lab"  -> FormatHex(LabChannels(c))
          [] b = "cmyk" -> FormatHex(<<CmykChannel(c, "c"), CmykChannel(c, "m"),
                                       CmykChannel(c, "y")>>)
          [] OTHER      -> <<>>

(***************************************************************************)
(* colorToHex  (index.ts 46-72): the converter of the tree builder         *)
(***************************************************************************)
\* Math.round(x).toString(16).padStart(2, "0"): no clamp, no upper-casing
PlainHex2(x) == padStart2(toString16(x))

\* the tree builder calling the converter of the harvester
colorToHex_ViaAnyColor(col) == anyColorToHex(col)

colorToHex(col) ==
    IF col = <<>> THEN <<>>
    ELSE
    LET c == col[1] IN
    IF IsNumber(c, "fr")
    THEN <<"#">> \o PlainHex2(FracChannel(c, "fr")) \o PlainHex2(FracChannel(c, "fg"))
                 \o PlainHex2(FracChannel(c, "fb"))
    ELSE IF IsNumber(c, "r")
    THEN <<"#">> \o PlainHex2(IntChannel(c, "r")) \o PlainHex2(IntChannel(c, "g"))
                 \o PlainHex2(IntChannel(c, "b"))
    ELSE <<>>

(***************************************************************************)
(* Raw decoder objects: property access                                    *)
(***************************************************************************)
Has(o, f) == f \in DOMAIN o
\* o.f as an optional value
Get(o, f) == IF f \in DOMAIN o THEN <<o[f]>> ELSE <<>>
\* opt?.f as an optional value
Opt(opt, f) == IF opt = <<>> THEN <<>> ELSE Get(opt[1], f)

\* the concatenation of a sequence of sequences (push(...items) in a loop)
RECURSIVE FlattenFrom(_, _)
FlattenFrom(ss, i) == IF i > Len(ss) THEN <<>> ELSE ss[i] \o FlattenFrom(ss, i + 1)
Flatten(ss) == FlattenFrom(ss, 1)

(***************************************************************************)
(* extractLayerInfo  (index.ts 75-123)                                     *)
(***************************************************************************)
Unnamed == <<"U","n","n","a","m","e","d">>

\* a ratio n/d, d > 0: the value of layer.opacity / 255
Ratio(n, d) == [n |-> n, d |-> d]

\* a ?? 0
OrZero(o, f) == IF Has(o, f) THEN o[f] ELSE 0

\* layer.children && layer.children.length > 0
HasChildren(layer) == Has(layer, "children") /\ Len(layer.children) > 0

\* the group test ahead of the text test
LayerType_GroupFirst(layer) ==
    IF HasChildren(layer) THEN "group"
    ELSE IF Has(layer, "text") THEN "text"
    ELSE IF Has(layer, "canvas") THEN "image"
    ELSE IF Has(layer, "vectorMask") \/ Has(layer, "vectorStroke") THEN "shape"
    ELSE "unknown"

LayerType(layer) ==
    IF Has(layer, "text") THEN "text"
    ELSE IF HasChildren(layer) THEN "group"
    ELSE IF Has(layer, "canvas") THEN "image"
    ELSE IF Has(layer, "vectorMask") \/ Has(layer, "vectorStroke") THEN "shape"
    ELSE "unknown"

\* lines 89-97
TextInfo(text) ==
    LET style == Get(text, "style") IN
    [ content       |-> IF Has(text, "text") THEN text.text ELSE <<>>,
      font          |-> Opt(Opt(style, "font"), "name"),
      fontSize      |-> Opt(style, "fontSize"),
      color         |-> colorToHex(Opt(style, "fillColor")),
      lineHeight    |-> Opt(style, "leading"),
      letterSpacing |-> Opt(style, "tracking") ]

\* layer.opacity !== undefined ? layer.opacity / 255 : 1
LayerOpacity(layer) ==
    IF Has(layer, "opacity") THEN Ratio(layer.opacity, 255) ELSE Ratio(1, 1)

RECURSIVE extractLayerInfo(_)
extractLayerInfo(layer) ==
    [ name     |-> IF Has(layer, "name") /\ layer.name # <<>> THEN layer.name
                   ELSE Unnamed,
      type     |-> LayerType(layer),
      visible  |-> ~(Has(layer, "hidden") /\ layer.hidden),
      opacity  |-> LayerOpacity(layer),
      bounds   |-> [ left   |-> OrZero(layer, "left"),
                     top    |-> OrZero(layer, "top"),
                     width  |-> OrZero(layer, "right") - OrZero(layer, "left"),
                     height |-> OrZero(layer, "bottom") - OrZero(layer, "top") ],
      text     |-> IF Has(layer, "text") THEN <<TextInfo(layer.text)>> ELSE <<>>,
      children |-> IF HasChildren(layer)
                   THEN << [i \in 1..Len(layer.children) |->
                               extractLayerInfo(layer.children[i])] >>
                   ELSE <<>> ]

\* parsePsdFile, lines 151-157, of a file that exists and decodes to psd
ColorModeName(m) ==
    CASE m = 0 -> "Bitmap"  [] m = 1 -> "Grayscale" [] m = 2 -> "Indexed"
      [] m = 3 -> "RGB"     [] m = 4 -> "CMYK"      [] m = 7 -> "Multichannel"
      [] m = 8 -> "Duotone" [] m = 9 -> "Lab"       [] OTHER -> "Unknown"

parsePsdFile(p) ==
    [ width          |-> p.width,
      height         |-> p.height,
      colorMode      |-> ColorModeName(IF Has(p, "colorMode") THEN p.colorMode ELSE 3),
      bitsPerChannel |-> IF Has(p, "bitsPerChannel") THEN p.bitsPerChannel ELSE 8,
      layers         |-> IF Has(p, "children")
                         THEN [i \in 1..Len(p.children) |->
                                  extractLayerInfo(p.children[i])]
                         ELSE <<>> ]


(***************************************************************************)
(* extractColorsFromLayer  (index.ts 537-659)                              *)
(***************************************************************************)
\* the value of one hexadecimal digit character, -1 for any other character
DigitValue(ch) ==
    IF \E d \in 1..16 : HexDigits[d] = LowerChar(ch)
    THEN (CHOOSE d \in 1..16 : HexDigits[d] = LowerChar(ch)) - 1
    ELSE -1

\* parseInt(s, 16) of a two-character string: the longest prefix of digits
parseInt16(s) ==
    IF DigitValue(s[1]) < 0 THEN NaN
    ELSE IF DigitValue(s[2]) < 0 THEN Num(DigitValue(s[1]))
    ELSE Num(16 * DigitValue(s[1]) + DigitValue(s[2]))

\* the source tag `${base}${i > 0 ? `-${i + 1}` : ""}` of the entry at the
\* 0-based index i: suffix 0 stands for the bare name
Tag(base, i) == [base |-> base, suffix |-> IF i > 0 THEN i + 1 ELSE 0]

\* addColor, lines 544-552: what it appends to colors
addColor(col, source, layerName) ==
    LET h == anyColorToHex(col) IN
    IF h # <<>>
    THEN << [ hex       |-> h,
              rgb       |-> [ r |-> parseInt16(SubSeq(h, 2, 3)),
                              g |-> parseInt16(SubSeq(h, 4, 5)),
                              b |-> parseInt16(SubSeq(h, 6, 7)) ],
              source    |-> source,
              layerName |-> layerName ] >>
    ELSE <<>>

\* colorStops.map((stop) => anyColorToHex(stop.color)).filter((c) => c !== null)
NotNull(h) == h # <<>>

\* the stops mapped without the filter
StopColors_Unfiltered(stops) ==
    [i \in 1..Len(stops) |-> anyColorToHex(Get(stops[i], "color"))]

StopColors(stops) ==
    SelectSeq([i \in 1..Len(stops) |-> anyColorToHex(Get(stops[i], "color"))], NotNull)

\* addGradient, lines 554-568: what it appends to gradients
addGradient(grad, source, layerName) ==
    IF grad # <<>> /\ Has(grad[1], "colorStops")
    THEN LET gradientColors == StopColors(grad[1].colorStops)
         IN  IF Len(gradientColors) > 0
             THEN << [ name      |-> Get(grad[1], "name"),
                       colors    |-> gradientColors,
                       source    |-> source,
                       layerName |-> layerName ] >>
             ELSE <<>>
    ELSE <<>>

\* entry.enabled !== false
Enabled(e) == ~(Has(e, "enabled") /\ e.enabled = FALSE)

\* the entries numbered by their place among the entries that are recorded
ColorEffects_CountsEnabled(effects, f, base, layerName) ==
    IF Has(effects, f)
    THEN Flatten([i \in 1..Len(effects[f]) |->
            IF Enabled(effects[f][i]) /\ Has(effects[f][i], "color")
            THEN addColor(<<effects[f][i].color>>,
                          Tag(base, Cardinality({ j \in 1..(i - 1) :
                                    Enabled(effects[f][j]) /\ Has(effects[f][j], "color") })),
                          layerName)
            ELSE <<>>])
    ELSE <<>>

\* effects.f?.forEach(...) over an array of colour entries
ColorEffects(effects, f, base, layerName) ==
    IF Has(effects, f)
    THEN Flatten([i \in 1..Len(effects[f]) |->
            IF Enabled(effects[f][i]) /\ Has(effects[f][i], "color")
            THEN addColor(<<effects[f][i].color>>, Tag(base, i - 1), layerName)
            ELSE <<>>])
    ELSE <<>>

\* a singular effect: outerGlow, innerGlow, satin
SingleEffect(effects, f, base, layerName) ==
    IF Has(effects, f) /\ Enabled(effects[f]) /\ Has(effects[f], "color")
    THEN addColor(<<effects[f].color>>, Tag(base, 0), layerName)
    ELSE <<>>

\* effects.f?.forEach(...) over an array of entries that carry a gradient:
\* the stroke effect (next to its colour) and the gradient overlay
GradientEffects(effects, f, base, layerName) ==
    IF Has(effects, f)
    THEN Flatten([i \in 1..Len(effects[f]) |->
            IF Enabled(effects[f][i]) /\ Has(effects[f][i], "gradient")
            THEN addGradient(<<effects[f][i].gradient>>, Tag(base, i - 1), layerName)
            ELSE <<>>])
    ELSE <<>>

\* vectorFill / vectorStroke.content: solid or gradient
ContentColors(content, base, layerName) ==
    IF content # <<>> /\ Has(content[1], "type") /\ content[1].type = "color"
    THEN addColor(Get(content[1], "color"), Tag(base, 0), layerName)
    ELSE <<>>

ContentGradients(content, base, layerName) ==
    IF content # <<>> /\ ~(Has(content[1], "type") /\ content[1].type = "color")
       /\ Has(content[1], "colorStops")
    THEN addGradient(content, Tag(base, 0), layerName)
    ELSE <<>>

extractColorsFromLayer(layer, layerName) ==
    LET fill    == Opt(Opt(Get(layer, "text"), "style"), "fillColor")
        vfill   == Get(layer, "vectorFill")
        vstroke == Opt(Get(layer, "vectorStroke"), "content")
        fx      == Get(layer, "effects")
        e       == fx[1]
    IN
    [ colors |->
            (IF fill # <<>> THEN addColor(fill, Tag("text", 0), layerName) ELSE <<>>)
         \o ContentColors(vfill, "vector-fill", layerName)
         \o ContentColors(vstroke, "vector-stroke", layerName)
         \o (IF fx = <<>> THEN <<>> ELSE
                ColorEffects(e, "dropShadow", "drop-shadow", layerName)
             \o ColorEffects(e, "innerShadow", "inner-shadow", layerName)
             \o SingleEffect(e, "outerGlow", "outer-glow", layerName)
             \o SingleEffect(e, "innerGlow", "inner-glow", layerName)
             \o ColorEffects(e, "solidFill", "color-overlay", layerName)
             \o ColorEffects(e, "stroke", "stroke-effect", layerName)
             \o SingleEffect(e, "satin", "satin", layerName)),
      gradients |->
            ContentGradients(vfill, "vector-fill-gradient", layerName)
         \o ContentGradients(vstroke, "vector-stroke-gradient", layerName)
         \o (IF fx = <<>> THEN <<>> ELSE
                GradientEffects(e, "stroke", "stroke-gradient", layerName)
             \o GradientEffects(e, "gradientOverlay", "gradient-overlay", layerName)) ]

(***************************************************************************)
(* extractAllColors  (index.ts 662-691)                                    *)
(***************************************************************************)
\* UTF-16 code-unit order of the characters that occur in a hex string
CharOrder == <<"#", "-", "0","1","2","3","4","5","6","7","8","9",
               "A","B","C","D","E","F","N">>
CharRank(ch) == CHOOSE i \in 1..Len(CharOrder) : CharOrder[i] = ch

\* a < b as Array.prototype.sort() compares strings: at the first position
\* where they differ a ends or has the smaller code unit
StrLess(a, b) ==
    \E i \in 1..Len(b) :
        /\ Len(a) >= i - 1
        /\ \A j \in 1..(i - 1) : a[j] = b[j]
        /\ \/ Len(a) = i - 1
           \/ CharRank(a[i]) < CharRank(b[i])

\* [...set].sort(): the element at position i has i - 1 smaller elements
SortedSeq(S) ==
    [i \in 1..Cardinality(S) |->
        CHOOSE x \in S : Cardinality({y \in S : StrLess(y, x)}) = i - 1]

\* a traversal that visits the children of a layer before the layer
RECURSIVE TraverseColors_ChildrenFirst(_)
TraverseColors_ChildrenFirst(items) ==
    Flatten([i \in 1..Len(items) |->
        LET layer == items[i]
            name  == IF Has(layer, "name") /\ layer.name # <<>> THEN layer.name
                     ELSE Unnamed
        IN  (IF Has(layer, "children") THEN TraverseColors_ChildrenFirst(layer.children)
             ELSE <<>>)
            \o <<extractColorsFromLayer(layer, name)>>])

\* traverse: the per-layer extractions in pre-order
RECURSIVE TraverseColors(_)
TraverseColors(items) ==
    Flatten([i \in 1..Len(items) |->
        LET layer == items[i]
            name  == IF Has(layer, "name") /\ layer.name # <<>> THEN layer.name
                     ELSE Unnamed
        IN  <<extractColorsFromLayer(layer, name)>>
            \o (IF Has(layer, "children") THEN TraverseColors(layer.children)
                ELSE <<>>)])

\* allColors.push(...colors) and allGradients.push(...gradients), in visit order
AllColors(per)    == Flatten([i \in 1..Len(per) |-> per[i].colors])
AllGradients(per) == Flatten([i \in 1..Len(per) |-> per[i].gradients])

\* new Set(allColors.map((c) => c.hex))
HexSet(allColors) == { allColors[i].hex : i \in 1..Len(allColors) }

\* the colours of the gradient stops counted among the unique colours
GradientHexes(allGradients) ==
    UNION { { allGradients[i].colors[j] : j \in 1..Len(allGradients[i].colors) } :
              i \in 1..Len(allGradients) }
extractAllColors_GradientsToo(layers) ==
    [ solidColors  |-> AllColors(TraverseColors(layers)),
      gradients    |-> AllGradients(TraverseColors(layers)),
      uniqueColors |-> SortedSeq(HexSet(AllColors(TraverseColors(layers)))
                            \cup GradientHexes(AllGradients(TraverseColors(layers)))) ]

extractAllColors(layers) ==
    [ solidColors  |-> AllColors(TraverseColors(layers)),
      gradients    |-> AllGradients(TraverseColors(layers)),
      uniqueColors |-> SortedSeq(HexSet(AllColors(TraverseColors(layers)))) ]


(***************************************************************************)
(* The layer index  (index.ts 694-785)                                     *)
(***************************************************************************)
\* layer.name.toLowerCase().includes(name.toLowerCase())
PartialMatch(layer, name) == includes(toLowerCase(layer.name), toLowerCase(name))

\* the partial match without toLowerCase on either side
RECURSIVE findLayerByName_CaseSensitive(_, _, _)
findLayerByName_CaseSensitive(layers, name, exact) ==
    LET Step(i) ==
            LET layer == layers[i]
                match == IF exact THEN layer.name = name ELSE includes(layer.name, name)
            IN  IF match THEN <<layer>>
                ELSE IF layer.children # <<>>
                THEN findLayerByName_CaseSensitive(layer.children[1], name, exact)
                ELSE <<>>
        returns == { i \in 1..Len(layers) : Step(i) # <<>> }
    IN  IF returns = {} THEN <<>>
        ELSE Step(CHOOSE i \in returns : \A j \in returns : i <= j)

\* the siblings of a level tested before any of them is descended into
RECURSIVE findLayerByName_SiblingsFirst(_, _, _)
findLayerByName_SiblingsFirst(layers, name, exact) ==
    LET Match(i) == IF exact THEN layers[i].name = name
                    ELSE PartialMatch(layers[i], name)
        Below(i) == IF layers[i].children # <<>>
                    THEN findLayerByName_SiblingsFirst(layers[i].children[1], name, exact)
                    ELSE <<>>
        hits     == { i \in 1..Len(layers) : Match(i) }
        deeper   == { i \in 1..Len(layers) : Below(i) # <<>> }
    IN  IF hits # {} THEN <<layers[CHOOSE i \in hits : \A j \in hits : i <= j]>>
        ELSE IF deeper # {} THEN Below(CHOOSE i \in deeper : \A j \in deeper : i <= j)
        ELSE <<>>

\* the for loop returns at the first layer that matches or under which the
\* recursive call finds a match
RECURSIVE findLayerByName(_, _, _)
findLayerByName(layers, name, exact) ==
    LET Step(i) ==
            LET layer == layers[i]
                match == IF exact THEN layer.name = name ELSE PartialMatch(layer, name)
            IN  IF match THEN <<layer>>
                ELSE IF layer.children # <<>>
                THEN findLayerByName(layer.children[1], name, exact)
                ELSE <<>>
        returns == { i \in 1..Len(layers) : Step(i) # <<>> }
    IN  IF returns = {} THEN <<>>
        ELSE Step(CHOOSE i \in returns : \A j \in returns : i <= j)

\* the traversal not entering the children of a layer that matches
RECURSIVE searchLayersByName_StopAtMatch(_, _)
searchLayersByName_StopAtMatch(layers, name) ==
    Flatten([i \in 1..Len(layers) |->
        IF PartialMatch(layers[i], name) THEN <<layers[i]>>
        ELSE IF layers[i].children # <<>>
        THEN searchLayersByName_StopAtMatch(layers[i].children[1], name)
        ELSE <<>>])

RECURSIVE searchLayersByName(_, _)
searchLayersByName(layers, name) ==
    Flatten([i \in 1..Len(layers) |->
        (IF PartialMatch(layers[i], name) THEN <<layers[i]>> ELSE <<>>)
        \o (IF layers[i].children # <<>>
            THEN searchLayersByName(layers[i].children[1], name)
            ELSE <<>>)])

\* getTextLayers that does not look below a text layer
RECURSIVE getTextLayers_BelowOthersOnly(_)
getTextLayers_BelowOthersOnly(layers) ==
    Flatten([i \in 1..Len(layers) |->
        IF layers[i].type = "text" THEN <<layers[i]>>
        ELSE IF layers[i].children # <<>>
        THEN getTextLayers_BelowOthersOnly(layers[i].children[1])
        ELSE <<>>])

RECURSIVE getTextLayers(_)
getTextLayers(layers) ==
    Flatten([i \in 1..Len(layers) |->
        (IF layers[i].type = "text" THEN <<layers[i]>> ELSE <<>>)
        \o (IF layers[i].children # <<>>
            THEN getTextLayers(layers[i].children[1])
            ELSE <<>>)])

\* one line of formatLayerTree, lines 698-716, kept as the pieces of its
\* template string; prefix is the sequence of inherited continuation marks
\* ("bar" for the vertical bar and spaces, "blank" for four spaces)
RECURSIVE formatLayerTree(_, _)
formatLayerTree(layers, prefix) ==
    Flatten([i \in 1..Len(layers) |->
        LET layer  == layers[i]
            isLast == (i = Len(layers))
        IN  << [ prefix     |-> prefix,
                 connector  |-> IF isLast THEN "last" ELSE "tee",
                 name       |-> layer.name,
                 typeLabel  |-> IF layer.type = "unknown" THEN ""
                                ELSE layer.type,
                 hiddenMark |-> ~layer.visible ] >>
            \o (IF layer.children # <<>> /\ Len(layer.children[1]) > 0
                THEN formatLayerTree(layer.children[1],
                        Append(prefix, IF isLast THEN "blank" ELSE "bar"))
                ELSE <<>>)])

(***************************************************************************)
(* limitDepth  (index.ts 1457-1484)                                        *)
(***************************************************************************)
DecDigits == <<"0","1","2","3","4","5","6","7","8","9">>

\* String(n) of a natural number
RECURSIVE NatToString(_)
NatToString(n) ==
    IF n < 10 THEN <<DecDigits[n + 1]>>
    ELSE NatToString(n \div 10) \o <<DecDigits[(n % 10) + 1]>>

\* `... (${n} children)`
PlaceholderName(n) ==
    <<".", ".", ".", " ", "(">> \o NatToString(n)
        \o <<" ", "c", "h", "i", "l", "d", "r", "e", "n", ")">>

\* a placeholder that passes for a group
Placeholder_Group(n) ==
    [ name     |-> PlaceholderName(n),
      type     |-> "group",
      visible  |-> TRUE,
      opacity  |-> Ratio(1, 1),
      bounds   |-> [left |-> 0, top |-> 0, width |-> 0, height |-> 0],
      text     |-> <<>>,
      children |-> <<>> ]

Placeholder(n) ==
    [ name     |-> PlaceholderName(n),
      type     |-> "unknown",
      visible  |-> TRUE,
      opacity  |-> Ratio(1, 1),
      bounds   |-> [left |-> 0, top |-> 0, width |-> 0, height |-> 0],
      text     |-> <<>>,
      children |-> <<>> ]

\* the cut one level too early
RECURSIVE limitDepth_OffByOne(_, _, _)
limitDepth_OffByOne(layers, currentDepth, maxDepth) ==
    IF currentDepth + 1 >= maxDepth
    THEN [i \in 1..Len(layers) |->
            [layers[i] EXCEPT !.children =
                IF layers[i].children # <<>> /\ Len(layers[i].children[1]) > 0
                THEN << <<Placeholder(Len(layers[i].children[1]))>> >>
                ELSE <<>>]]
    ELSE [i \in 1..Len(layers) |->
            [layers[i] EXCEPT !.children =
                IF layers[i].children # <<>>
                THEN <<limitDepth_OffByOne(layers[i].children[1], currentDepth + 1,
                                           maxDepth)>>
                ELSE <<>>]]

RECURSIVE limitDepth(_, _, _)
limitDepth(layers, currentDepth, maxDepth) ==
    IF currentDepth >= maxDepth
    THEN [i \in 1..Len(layers) |->
            [layers[i] EXCEPT !.children =
                IF layers[i].children # <<>> /\ Len(layers[i].children[1]) > 0
                THEN << <<Placeholder(Len(layers[i].children[1]))>> >>
                ELSE <<>>]]
    ELSE [i \in 1..Len(layers) |->
            [layers[i] EXCEPT !.children =
                IF layers[i].children # <<>>
                THEN <<limitDepth(layers[i].children[1], currentDepth + 1, maxDepth)>>
                ELSE <<>>]]

\* lines 1486-1488: depth ? limitDepth(psdInfo.layers, 0, depth) : psdInfo.layers
\* (depth is optional; 0 is falsy)
LayersToShow(layers, depth) ==
    IF depth # <<>> /\ depth[1] # 0
    THEN limitDepth(layers, 0, depth[1])
    ELSE layers


(***************************************************************************)
(* get_hero_section  (index.ts 1636-1709)                                  *)
(***************************************************************************)
\* findGroup of lines 1646-1659: layer.children || [layer] of the first
\* layer, in pre-order, whose name contains heroGroupName
\* findGroup matching groups only, as findGroup of get_layer_children does
RECURSIVE findHeroGroup_GroupsOnly(_, _)
findHeroGroup_GroupsOnly(layers, heroGroupName) ==
    LET Step(i) ==
            IF PartialMatch(layers[i], heroGroupName) /\ layers[i].children # <<>>
            THEN << layers[i].children[1] >>
            ELSE IF layers[i].children # <<>>
            THEN findHeroGroup_GroupsOnly(layers[i].children[1], heroGroupName)
            ELSE <<>>
        returns == { i \in 1..Len(layers) : Step(i) # <<>> }
    IN  IF returns = {} THEN <<>>
        ELSE Step(CHOOSE i \in returns : \A j \in returns : i <= j)

RECURSIVE findHeroGroup(_, _)
findHeroGroup(layers, heroGroupName) ==
    LET Step(i) ==
            IF PartialMatch(layers[i], heroGroupName)
            THEN << IF layers[i].children # <<>> THEN layers[i].children[1]
                    ELSE <<layers[i]>> >>
            ELSE IF layers[i].children # <<>>
            THEN findHeroGroup(layers[i].children[1], heroGroupName)
            ELSE <<>>
        returns == { i \in 1..Len(layers) : Step(i) # <<>> }
    IN  IF returns = {} THEN <<>>
        ELSE Step(CHOOSE i \in returns : \A j \in returns : i <= j)

\* lines 1644-1661: heroGroupName is optional and "" is falsy
HeroLayers(layers, heroGroupName) ==
    IF heroGroupName # <<>> /\ heroGroupName[1] # <<>>
    THEN IF findHeroGroup(layers, heroGroupName[1]) = <<>> THEN layers
         ELSE findHeroGroup(layers, heroGroupName[1])[1]
    ELSE layers

\* a.text?.fontSize || 0
FontSizeOf(layer) ==
    IF layer.text = <<>> \/ layer.text[1].fontSize = <<>> THEN 0
    ELSE layer.text[1].fontSize[1]

\* the element put behind the elements of its size that follow it in the
\* document
InsertBySize_AfterTies(layer, sorted) ==
    LET k == Cardinality({ j \in 1..Len(sorted) :
                             FontSizeOf(sorted[j]) >= FontSizeOf(layer) })
    IN  SubSeq(sorted, 1, k) \o <<layer>> \o SubSeq(sorted, k + 1, Len(sorted))

\* [...textLayers].sort((a, b) => sizeB - sizeA), a stable sort: a layer is
\* put in front of the sorted layers that follow it in the document, behind
\* those of them that are strictly larger
InsertBySize(layer, sorted) ==
    LET k == Cardinality({ j \in 1..Len(sorted) :
                             FontSizeOf(sorted[j]) > FontSizeOf(layer) })
    IN  SubSeq(sorted, 1, k) \o <<layer>> \o SubSeq(sorted, k + 1, Len(sorted))

RECURSIVE SortBySizeFrom(_, _)
SortBySizeFrom(textLayers, i) ==
    IF i > Len(textLayers) THEN <<>>
    ELSE InsertBySize(textLayers[i], SortBySizeFrom(textLayers, i + 1))

SortBySize(textLayers) == SortBySizeFrom(textLayers, 1)

ctaKeywords ==
    << <<"b","u","t","t","o","n">>, <<"c","t","a">>, <<"b","t","n">>,
       <<"a","c","t","i","o","n">>, <<"c","l","i","c","k">>,
       <<"s","u","b","m","i","t">> >>

\* ctaKeywords.some((kw) => layer.name.toLowerCase().includes(kw))
IsCta(layer) ==
    \E k \in 1..Len(ctaKeywords) : includes(toLowerCase(layer.name), ctaKeywords[k])

\* the layers at every depth below the scope taken as well
RECURSIVE CtaLayers_Nested(_)
CtaLayers_Nested(heroLayers) ==
    Flatten([i \in 1..Len(heroLayers) |->
        (IF IsCta(heroLayers[i]) THEN <<heroLayers[i]>> ELSE <<>>)
        \o (IF heroLayers[i].children # <<>>
            THEN CtaLayers_Nested(heroLayers[i].children[1])
            ELSE <<>>)])

\* the loop of lines 1695-1699 over the direct layers of the scope
CtaLayers(heroLayers) ==
    Flatten([i \in 1..Len(heroLayers) |->
        IF IsCta(heroLayers[i]) THEN <<heroLayers[i]>> ELSE <<>>])

\* categorized, lines 1667-1699
Categorized(psdInfo, heroLayers, sorted) ==
    [ tool         |-> "get_hero_section",
      isError      |-> FALSE,
      documentSize |-> [width |-> psdInfo.width, height |-> psdInfo.height],
      heading      |-> IF Len(sorted) > 0 THEN <<sorted[1]>> ELSE <<>>,
      subheading   |-> IF Len(sorted) > 1 THEN <<sorted[2]>> ELSE <<>>,
      body         |-> IF Len(sorted) > 2 THEN SubSeq(sorted, 3, Len(sorted)) ELSE <<>>,
      cta          |-> CtaLayers(heroLayers) ]

(***************************************************************************)
(* Vector export  (index.ts 160-308, 375-377)                              *)
(***************************************************************************)
\* (v * size).toFixed(2): the number of hundredths nearest to v * size, v a
\* fraction of FP-ths
toFixed2(v, size) == Round(v * size * 100, FP)

\* bezierPath.open as a condition
IsOpen(bezierPath) == Has(bezierPath, "open") /\ bezierPath.open

\* `M ${startX} ${startY}` for the first knot
MoveTo(knot, width, height) ==
    [ op   |-> "M",
      args |-> << toFixed2(knot.points[3], width), toFixed2(knot.points[4], height) >> ]

\* the curve with its two control points taken from the wrong knots
CurveTo_ControlsSwapped(currentKnot, nextKnot, width, height) ==
    [ op   |-> "C",
      args |-> << toFixed2(nextKnot.points[5], width),
                  toFixed2(nextKnot.points[6], height),
                  toFixed2(currentKnot.points[1], width),
                  toFixed2(currentKnot.points[2], height),
                  toFixed2(nextKnot.points[3], width),
                  toFixed2(nextKnot.points[4], height) >> ]

\* `C ${cp1x} ${cp1y}, ${cp2x} ${cp2y}, ${endX} ${endY}`
CurveTo(currentKnot, nextKnot, width, height) ==
    [ op   |-> "C",
      args |-> << toFixed2(currentKnot.points[5], width),
                  toFixed2(currentKnot.points[6], height),
                  toFixed2(nextKnot.points[1], width),
                  toFixed2(nextKnot.points[2], height),
                  toFixed2(nextKnot.points[3], width),
                  toFixed2(nextKnot.points[4], height) >> ]

ClosePath == [op |-> "Z", args |-> <<>>]

\* the loop without its break: the wrap-around segment of an open path too
Curves_NoBreak(knots, open, width, height) ==
    [i \in 1..Len(knots) |->
        CurveTo(knots[i], knots[(i % Len(knots)) + 1], width, height)]

\* the loop of lines 198-218: it breaks at the last knot of an open path
Curves(knots, open, width, height) ==
    [i \in 1..(IF open THEN Len(knots) - 1 ELSE Len(knots)) |->
        CurveTo(knots[i], knots[(i % Len(knots)) + 1], width, height)]

\* one iteration of the loop over paths, lines 182-224
SubPath(bezierPath, width, height) ==
    IF Len(bezierPath.knots) = 0 THEN <<>>
    ELSE <<MoveTo(bezierPath.knots[1], width, height)>>
         \o Curves(bezierPath.knots, IsOpen(bezierPath), width, height)
         \o (IF ~IsOpen(bezierPath) THEN <<ClosePath>> ELSE <<>>)

\* pathData before join(" "): the commands in the order they are pushed
bezierPathsToSvgPath(paths, width, height) ==
    Flatten([i \in 1..Len(paths) |-> SubPath(paths[i], width, height)])

\* a call that returns v, and a call that throws an Error with a message
Returns(v) == [throws |-> FALSE, value |-> v]
Throws(message) == [throws |-> TRUE, message |-> message]

\* vectorContentToColor, lines 161-172: an rgb(...) string of the rounded
\* channels, or undefined; the `in` test throws on a solid content that
\* has no colour
vectorContentToColor(content) ==
    IF content = <<>> THEN Returns(<<>>)
    ELSE IF Has(content[1], "type") /\ content[1].type = "color"
    THEN IF ~Has(content[1], "color") THEN Throws("TypeError")
         ELSE IF Has(content[1].color, "r")
         THEN Returns(<< [ css |-> "rgb",
                           r   |-> IntChannel(content[1].color, "r"),
                           g   |-> IntChannel(content[1].color, "g"),
                           b   |-> IntChannel(content[1].color, "b") ] >>)
         ELSE Returns(<<>>)
    ELSE Returns(<<>>)

\* the literals "#000000" and "none" of lines 275 and 290
CssBlack == [css |-> "#000000"]
CssNone  == [css |-> "none"]

\* layer.name?.toLowerCase().includes(name.toLowerCase()) && layer.vectorMask
VectorMatch(layer, name) ==
    /\ Has(layer, "name")
    /\ includes(toLowerCase(layer.name), toLowerCase(name))
    /\ Has(layer, "vectorMask")

\* findVectorLayer, lines 230-244
RECURSIVE findVectorLayer(_, _)
findVectorLayer(layers, name) ==
    LET Step(i) ==
            IF VectorMatch(layers[i], name) THEN <<layers[i]>>
            ELSE IF Has(layers[i], "children")
            THEN findVectorLayer(layers[i].children, name)
            ELSE <<>>
        returns == { i \in 1..Len(layers) : Step(i) # <<>> }
    IN  IF returns = {} THEN <<>>
        ELSE Step(CHOOSE i \in returns : \A j \in returns : i <= j)

\* getAllVectorLayers, lines 247-263
RECURSIVE getAllVectorLayers(_)
getAllVectorLayers(layers) ==
    Flatten([i \in 1..Len(layers) |->
        (IF Has(layers[i], "vectorMask") THEN <<layers[i]>> ELSE <<>>)
        \o (IF Has(layers[i], "children") THEN getAllVectorLayers(layers[i].children)
            ELSE <<>>)])

\* stroke?.lineWidth?.value || 0
StrokeWidth(stroke) ==
    LET value == Opt(Opt(stroke, "lineWidth"), "value")
    IN  IF value = <<>> THEN 0 ELSE value[1]

\* the stroke attributes without the strokeEnabled test of line 283
StrokeAttributes_IgnoresEnabled(stroke, strokeColor) ==
    IF StrokeWidth(stroke) > 0 /\ strokeColor # <<>>
    THEN << [ stroke   |-> strokeColor[1],
              width    |-> StrokeWidth(stroke),
              linecap  |-> Opt(stroke, "lineCapType"),
              linejoin |-> Opt(stroke, "lineJoinType") ] >>
    ELSE <<>>

\* the stroke attributes of lines 293-302, none when the stroke is not drawn
StrokeAttributes(stroke, strokeColor) ==
    IF /\ ~(stroke # <<>> /\ Has(stroke[1], "strokeEnabled")
                          /\ stroke[1].strokeEnabled = FALSE)
       /\ StrokeWidth(stroke) > 0
       /\ strokeColor # <<>>
    THEN << [ stroke   |-> strokeColor[1],
              width    |-> StrokeWidth(stroke),
              linecap  |-> Opt(stroke, "lineCapType"),
              linejoin |-> Opt(stroke, "lineJoinType") ] >>
    ELSE <<>>

\* the SVG text with a fill that is left out whenever it has no colour
SvgText_UnresolvedIsNone(layer, width, height, fillColor, strokeColor) ==
    [ width   |-> width,
      height  |-> height,
      viewBox |-> <<0, 0, width, height>>,
      d       |-> bezierPathsToSvgPath(layer.vectorMask.paths, width, height),
      fill    |-> IF fillColor = <<>> THEN CssNone ELSE fillColor[1],
      stroke  |-> StrokeAttributes(Get(layer, "vectorStroke"), strokeColor) ]

\* the SVG text, lines 286-307, as the values it is assembled from
SvgText(layer, width, height, fillColor, strokeColor) ==
    [ width   |-> width,
      height  |-> height,
      viewBox |-> <<0, 0, width, height>>,
      d       |-> bezierPathsToSvgPath(layer.vectorMask.paths, width, height),
      fill    |-> IF Has(layer, "vectorFill")
                  THEN (IF fillColor = <<>> THEN CssBlack ELSE fillColor[1])
                  ELSE CssNone,
      stroke  |-> StrokeAttributes(Get(layer, "vectorStroke"), strokeColor) ]

\* the conversion without the test of lines 267-269: reading the paths of
\* a mask that is not there throws a TypeError
vectorLayerToSvg_NoMaskTest(layer, width, height) ==
    IF \/ ~Has(layer, "vectorMask")
       \/ ~Has(layer.vectorMask, "paths")
       \/ \E i \in 1..Len(layer.vectorMask.paths) :
             ~Has(layer.vectorMask.paths[i], "knots")
    THEN Throws("TypeError")
    ELSE IF vectorContentToColor(Get(layer, "vectorFill")).throws
    THEN Throws("TypeError")
    ELSE IF vectorContentToColor(Opt(Get(layer, "vectorStroke"), "content")).throws
    THEN Throws("TypeError")
    ELSE Returns(SvgText(layer, width, height,
                         vectorContentToColor(Get(layer, "vectorFill")).value,
                         vectorContentToColor(
                             Opt(Get(layer, "vectorStroke"), "content")).value))

\* vectorLayerToSvg, lines 266-308; iterating paths or reading knots.length
\* throws when the mask carries no paths or a path no knots
vectorLayerToSvg(layer, width, height) ==
    IF ~Has(layer, "vectorMask")
    THEN Throws("Layer does not have vector data")
    ELSE IF \/ ~Has(layer.vectorMask, "paths")
            \/ \E i \in 1..Len(layer.vectorMask.paths) :
                  ~Has(layer.vectorMask.paths[i], "knots")
    THEN Throws("TypeError")
    ELSE IF vectorContentToColor(Get(layer, "vectorFill")).throws
    THEN Throws("TypeError")
    ELSE IF vectorContentToColor(Opt(Get(layer, "vectorStroke"), "content")).throws
    THEN Throws("TypeError")
    ELSE Returns(SvgText(layer, width, height,
                         vectorContentToColor(Get(layer, "vectorFill")).value,
                         vectorContentToColor(
                             Opt(Get(layer, "vectorStroke"), "content")).value))

\* sanitizeFilename, lines 375-377
ReservedChars == {"<", ">", ":", "\"", "/", "\\", "|", "?", "*"}
WhitespaceChars == {" ", "\t", "\n", "\r", "\f"}

\* the replacement without the g flag: only the first reserved character
ReplaceReserved_First(name) ==
    [i \in 1..Len(name) |->
        IF name[i] \in ReservedChars
           /\ \A j \in 1..(i - 1) : name[j] \notin ReservedChars
        THEN "_" ELSE name[i]]

\* replace(/[<>:"/\\|?*]/g, "_")
ReplaceReserved(name) ==
    [i \in 1..Len(name) |-> IF name[i] \in ReservedChars THEN "_" ELSE name[i]]

\* replace(/\s+/g, "_"): every maximal run of whitespace becomes one "_"
ReplaceWhitespaceRuns(name) ==
    Flatten([i \in 1..Len(name) |->
        IF name[i] \notin WhitespaceChars THEN <<name[i]>>
        ELSE IF i > 1 /\ name[i - 1] \in WhitespaceChars THEN <<>>
        ELSE <<"_">>])

sanitizeFilename(name) == ReplaceWhitespaceRuns(ReplaceReserved(name))

(***************************************************************************)
(* Input documents                                                         *)
(***************************************************************************)
Hero        == <<"H","e","r","o">>
hero        == <<"h","e","r","o">>
HeroSection == <<"H","e","r","o"," ","S","e","c","t","i","o","n">>
Logo        == <<"L","o","g","o">>
Title       == <<"T","i","t","l","e">>

\* --- colours: every encoding, in and out of its nominal range, complete
\* --- and with channels missing, and objects of mixed or of no shape
FracVals == {-(FP \div 2), 0, 1, FP, 2 * FP}
IntVals  == {-5 * FP, 0, (51 * FP) \div 2, 26 * FP, 255 * FP, 300 * FP}
UnitVals == {0, FP \div 2, FP}
HueVals  == {-60 * FP, 0, 30 * FP, 120 * FP, 200 * FP, 300 * FP, 359 * FP, 420 * FP}
LVals    == {0, 50 * FP, 100 * FP}
ABVals   == {-128 * FP, 0, 127 * FP}

FrgbColors == [{"fr", "fg", "fb"} -> FracVals] \cup [{"fr", "fg"} -> UnitVals]
                \cup [{"fr"} -> UnitVals]
RgbColors  == [{"r", "g", "b"} -> IntVals] \cup [{"r", "b"} -> UnitVals]
                \cup [{"r"} -> IntVals]
GrayColors == [{"k"} -> FracVals] \cup [{"k", "m", "y"} -> {0, FP}]
HsbColors  == { [h |-> h, s |-> s, b |-> b] :
                    h \in HueVals, s \in UnitVals, b \in UnitVals \cup {2 * FP} }
LabColors  == { [l |-> l, a |-> a, b |-> b] : l \in LVals, a \in ABVals, b \in ABVals }
                \cup { [l |-> l, a |-> a] : l \in LVals, a \in ABVals }
CmykColors == [{"c", "m", "y", "k"} -> UnitVals]
                \cup { [c |-> 2 * FP, m |-> 0, y |-> -FP, k |-> 0] }
MixedColors ==
    { [fr |-> FP, fg |-> 0, fb |-> 0, r |-> 0, g |-> 255 * FP, b |-> 0],
      [r |-> 26 * FP, g |-> 26 * FP, b |-> 26 * FP, k |-> FP],
      [k |-> FP, h |-> 0, s |-> FP, b |-> FP],
      [h |-> 0, s |-> FP, b |-> FP, l |-> 50 * FP, a |-> 0],
      [l |-> 50 * FP, a |-> 0, b |-> 0, c |-> 0, m |-> 0, y |-> 0, k |-> 0],
      [k |-> 0, c |-> 0],
      [k |-> FP, c |-> 0, m |-> 0] }
ShapelessColors ==
    { [fg |-> FP, fb |-> FP], [g |-> 26 * FP, b |-> 26 * FP], [h |-> 0, s |-> FP],
      [l |-> 50 * FP], [a |-> 0, b |-> 0], [c |-> 0, m |-> 0, y |-> 0],
      [m |-> 0, y |-> 0], [s |-> FP, b |-> FP], [y |-> 0] }

ColorInputs == FrgbColors \cup RgbColors \cup GrayColors \cup HsbColors
                \cup LabColors \cup CmykColors \cup MixedColors \cup ShapelessColors

\* a text layer filled with col (optional), followed by a solid shape
DarkGray == [r |-> 26 * FP, g |-> 26 * FP, b |-> 26 * FP]
TextLayerOf(col) ==
    [ name |-> Title, left |-> 1, top |-> 1, right |-> 5, bottom |-> 3,
      text |-> [ text  |-> Hero,
                 style |-> IF col = <<>> THEN [fontSize |-> 64]
                           ELSE [fontSize |-> 64, fillColor |-> col[1]] ] ]
ShapeLayer ==
    [ name |-> Logo, left |-> 2, top |-> 2, right |-> 4, bottom |-> 4,
      vectorMask |-> [paths |-> <<>>],
      vectorFill |-> [type |-> "color", color |-> DarkGray] ]
ColorDoc(col) ==
    [ width |-> 1440, height |-> 900, children |-> <<TextLayerOf(col), ShapeLayer>> ]
ColorDocs == { ColorDoc(col) : col \in {<<>>} \cup { <<c>> : c \in ColorInputs } }

\* --- one top-level layer with every combination of the properties the
\* --- builder looks at
WithField(S, f, V) == S \cup { [x \in DOMAIN r \cup {f} |-> IF x = f THEN v ELSE r[x]] :
                                 r \in S, v \in V }
PlainLeaf == [name |-> Logo, left |-> 7, right |-> 9]
TextLeaf  == [name |-> hero, left |-> 8, text |-> [text |-> hero]]
OpacityVals == {0, 128, 255, 510}
BuildLayers ==
    LET s0 == { [left |-> 1, top |-> 2, right |-> 4, bottom |-> 8], [right |-> 3] }
        s1 == WithField(s0, "name", {<<>>, Title})
        s2 == WithField(s1, "text", { [text |-> Hero],
                                      [text |-> Hero, style |-> [fillColor |-> DarkGray]] })
        s3 == WithField(s2, "children", { <<>>, <<PlainLeaf>>, <<TextLeaf, PlainLeaf>> })
        s4 == WithField(s3, "canvas", {TRUE})
        s5 == WithField(s4, "vectorMask", { [paths |-> <<>>] })
        s6 == WithField(s5, "vectorStroke", { [strokeEnabled |-> TRUE] })
        s7 == WithField(s6, "opacity", OpacityVals)
    IN  WithField(s7, "hidden", {TRUE})
BuildDocs == { [width |-> 1440, height |-> 900, children |-> <<l>>] : l \in BuildLayers }
                \cup { [width |-> 10, height |-> 10] }

\* --- every forest of at most MaxNodes layers, named freely, each layer
\* --- carrying its pre-order number as its left edge
Names == {HeroSection, hero}
RECURSIVE Forests(_, _)
Forests(n, start) ==
    IF n = 0 THEN {<<>>}
    ELSE UNION { UNION { UNION {
            { <<(IF kids = <<>> THEN [name |-> nm, left |-> start]
                 ELSE [name |-> nm, left |-> start, children |-> kids])>> \o rest :
              rest \in Forests(n - 1 - k, start + 1 + k) } :
            kids \in Forests(k, start + 1) } :
            nm \in Names } :
            k \in 0..(n - 1) }
\* --- and the flat documents of MaxWide layers, which have more layers
\* --- than a list of suggestions holds
WideForests ==
    { [i \in 1..MaxWide |-> [name |-> nm[i], left |-> i]] : nm \in [1..MaxWide -> Names] }
IndexDocs == { [width |-> 1440, height |-> 900, children |-> f] :
                 f \in UNION { Forests(n, 1) : n \in 1..MaxNodes } \cup WideForests }
Queries == {Hero, hero, <<"S","E","C">>, <<"x">>, <<>>}


\* --- vector layers: masks of up to two sub-paths of up to MaxKnots knots,
\* --- closed, open and without the flag
Icon  == <<"I","c","o","n"," ","1">>
Icons == <<"I","c","o","n","s">>
Slash == <<"a","/","b">>

Knot(j) == [points |-> [p \in 1..6 |-> (j + p) % (FP + 1)]]
KnotsOf(n) == [j \in 1..n |-> Knot(j)]
BezierPaths ==
    UNION { { [knots |-> KnotsOf(n)],
              [knots |-> KnotsOf(n), open |-> TRUE],
              [knots |-> KnotsOf(n), open |-> FALSE] } : n \in 0..MaxKnots }
PathLists == {<<>>} \cup { <<a>> : a \in BezierPaths }
                \cup { <<a, b>> : a \in BezierPaths, b \in BezierPaths }

VectorDoc(layers) == [width |-> 200, height |-> 100, children |-> layers]
PathDocs ==
    { VectorDoc(<< [name |-> Logo, vectorMask |-> [paths |-> pl]] >>) : pl \in PathLists }

\* --- fills and strokes of a vector layer
OneSquare == << [knots |-> KnotsOf(2)] >>
GradientFill ==
    [ type |-> "solid", name |-> Hero,
      colorStops |-> << [color |-> DarkGray], [color |-> [r |-> 0, g |-> 0, b |-> 255 * FP]] >> ]
VectorFills ==
    { [type |-> "color", color |-> DarkGray],
      [type |-> "color", color |-> [r |-> 300 * FP, g |-> -5 * FP, b |-> (51 * FP) \div 2]],
      [type |-> "color", color |-> [r |-> 0]],
      [type |-> "color", color |-> [fr |-> FP, fg |-> 0, fb |-> 0]],
      [type |-> "color"],
      GradientFill }
SolidStroke == [content |-> [type |-> "color", color |-> DarkGray], lineWidth |-> [value |-> 2]]
VectorStrokes ==
    { SolidStroke,
      [content |-> [type |-> "color", color |-> DarkGray], lineWidth |-> [value |-> 2],
       strokeEnabled |-> FALSE],
      [content |-> [type |-> "color", color |-> DarkGray], lineWidth |-> [value |-> 0]],
      [content |-> [type |-> "color", color |-> DarkGray], lineWidth |-> [value |-> 2],
       lineCapType |-> "round", lineJoinType |-> "miter"],
      [content |-> GradientFill, lineWidth |-> [value |-> 2]],
      [content |-> [type |-> "color", color |-> DarkGray]],
      [lineWidth |-> [value |-> 2]] }
FillLayers ==
    LET s0 == { [name |-> Logo, vectorMask |-> [paths |-> OneSquare]], [name |-> Logo] }
        s1 == WithField(s0, "vectorFill", VectorFills)
    IN  WithField(s1, "vectorStroke", VectorStrokes)
FillDocs ==
    { VectorDoc(<<l>>) : l \in FillLayers }
        \cup { [ width |-> 64, height |-> 32,
                 children |-> << [ name |-> Logo, vectorMask |-> [paths |-> OneSquare],
                                   vectorStroke |-> s ] >> ] : s \in VectorStrokes }

\* --- documents for the bulk export: every layer is a vector layer, a
\* --- vector layer whose mask has no paths, or no vector layer at all
BulkKinds(name) ==
    { [name |-> name, vectorMask |-> [paths |-> OneSquare],
       vectorFill |-> [type |-> "color", color |-> DarkGray]],
      [name |-> name, vectorMask |-> [open |-> FALSE]],
      [name |-> name, canvas |-> TRUE] }
BulkForests ==
    LET one   == { <<a>> : a \in BulkKinds(Logo) }
        two   == { <<a, b>> : a \in BulkKinds(Logo), b \in BulkKinds(Icon) }
        three == { <<a, b, c>> : a \in BulkKinds(Logo), b \in BulkKinds(Icon),
                                 c \in BulkKinds(Slash) }
    IN  one \cup two \cup three
             \cup { << [name |-> Icons, children |-> f], c >> :
                      f \in two, c \in BulkKinds(Slash) }
             \cup { << [children |-> f], [vectorMask |-> [paths |-> OneSquare]] >> :
                      f \in one }
BulkDocs == { VectorDoc(f) : f \in BulkForests } \cup { [width |-> 200, height |-> 100] }

\* --- layer names for sanitizeFilename: every string of up to MaxLen
\* --- characters of a small alphabet, and every reserved and whitespace
\* --- character between two letters
RECURSIVE StringsOver(_, _)
StringsOver(alphabet, n) ==
    IF n = 0 THEN {<<>>}
    ELSE StringsOver(alphabet, n - 1)
            \cup { Append(x, ch) : x \in StringsOver(alphabet, n - 1), ch \in alphabet }
LayerNameInputs ==
    StringsOver({"a", "_", " ", "\t", "<"}, MaxLen)
        \cup { <<"a", ch, "b">> : ch \in ReservedChars \cup WhitespaceChars }
        \cup { <<"a", ch, " ", ch, "b">> : ch \in ReservedChars \cup WhitespaceChars }
NameDocs ==
    { VectorDoc(<< [name |-> nm, vectorMask |-> [paths |-> OneSquare]] >>) :
        nm \in LayerNameInputs }

VectorDocs == PathDocs \cup FillDocs \cup BulkDocs \cup NameDocs
VectorQueries == {Logo, <<"i","c","o","n">>, <<"x">>}

\* --- layers that contribute colours through every channel of the
\* --- harvester: text, vector fill and stroke, and the effects
Red    == [r |-> 255 * FP, g |-> 0, b |-> 0]
Green  == [r |-> 0, g |-> 255 * FP, b |-> 0]
Blue   == [r |-> 0, g |-> 0, b |-> 255 * FP]
Yellow == [fr |-> FP, fg |-> FP, fb |-> 0]
GradientOf(c1, c2) ==
    [type |-> "solid", name |-> Hero, colorStops |-> << [color |-> c1], [color |-> c2] >>]
PaletteLayers ==
    { [ name |-> Title, text |-> [text |-> Hero, style |-> [fillColor |-> Red]] ],
      [ name |-> Logo, vectorMask |-> [paths |-> OneSquare],
        vectorFill |-> [type |-> "color", color |-> DarkGray],
        effects |-> [ dropShadow |-> << [color |-> Red],
                                        [color |-> Blue, enabled |-> FALSE],
                                        [color |-> DarkGray, enabled |-> TRUE] >>,
                      innerShadow |-> << [color |-> [k |-> FP]] >> ] ],
      [ name |-> Icon, vectorFill |-> GradientOf(Green, Red),
        vectorStroke |-> [content |-> [type |-> "color", color |-> Blue]] ],
      [ name |-> Icons,
        vectorStroke |-> [content |-> GradientOf(Yellow, [s |-> 0])],
        effects |-> [ stroke |-> << [color |-> Blue, gradient |-> GradientOf(Yellow, Blue)],
                                    [gradient |-> GradientOf(Green, Green)] >>,
                      gradientOverlay |-> << [gradient |-> GradientOf(Red, DarkGray)],
                                             [gradient |-> GradientOf([s |-> 0], [y |-> 0])] >>,
                      solidFill |-> << [color |-> Yellow], [color |-> Red] >>,
                      satin |-> [color |-> [r |-> 0]],
                      outerGlow |-> [color |-> Green, enabled |-> FALSE],
                      innerGlow |-> [color |-> [h |-> 0, s |-> FP, b |-> FP]] ] ],
      [ name |-> Slash,
        text |-> [text |-> Hero, style |-> [fillColor |-> [s |-> 0]]],
        effects |-> [ outerGlow |-> [color |-> [c |-> 0, m |-> 0, y |-> 0, k |-> 0]],
                      solidFill |-> << [color |-> [y |-> 0]], [color |-> Red] >>,
                      gradientOverlay |-> << [gradient |-> GradientOf(Blue, Yellow)] >> ] ],
      [ left |-> 3 ] }
PaletteForests ==
    LET one == { <<a>> : a \in PaletteLayers }
        two == { <<a, b>> : a \in PaletteLayers, b \in PaletteLayers }
    IN  one \cup two
            \cup { << [ name |-> HeroSection, children |-> f,
                         effects |-> [ solidFill |-> << [color |-> Green] >>,
                                       gradientOverlay |->
                                           << [gradient |-> GradientOf(Blue, Blue)] >> ] ],
                       c >> : f \in two, c \in PaletteLayers }
PaletteDocs == { VectorDoc(f) : f \in PaletteForests } \cup { [width |-> 200, height |-> 100] }

\* --- scopes of the hero classifier: up to MaxHero layers, each a text of
\* --- some font size or none, a plain layer, or a text or a box with a text
\* --- inside, at the top level or inside a group named "Hero Section"
SubmitButton == <<"S","u","b","m","i","t"," ","B","u","t","t","o","n">>
SUBMIT       == <<"S","U","B","M","I","T">>
ClickMe      == <<"C","l","i","c","k"," ","m","e">>
Box          == <<"B","o","x">>
TextOf(name, k, style) == [name |-> name, left |-> k, text |-> [text |-> Hero, style |-> style]]
HeroChoices(k) ==
    { TextOf(Title, k, [fontSize |-> 12]),
      TextOf(Title, k, [fontSize |-> 64]),
      TextOf(SubmitButton, k, [fontSize |-> 24]),
      [name |-> Logo, left |-> k,
       text |-> [text |-> Hero, style |-> [fillColor |-> DarkGray]],
       children |-> << TextOf(Title, 10 * k, [fontSize |-> 64]) >>],
      [name |-> SUBMIT, left |-> k, canvas |-> TRUE],
      [name |-> Box, left |-> k,
       children |-> << TextOf(ClickMe, 10 * k, [fontSize |-> 24]) >>] }
RECURSIVE HeroScopes(_)
HeroScopes(n) ==
    IF n = 0 THEN {<<>>}
    ELSE HeroScopes(n - 1)
            \cup { Append(f, c) : f \in { g \in HeroScopes(n - 1) : Len(g) = n - 1 },
                                  c \in HeroChoices(n) }
HeroForests ==
    HeroScopes(MaxHero)
        \cup { << [name |-> HeroSection, left |-> 0, children |-> f], c >> :
                 f \in HeroScopes(MaxHero - 1),
                 c \in { TextOf(Title, 9, [fontSize |-> 12]),
                         [name |-> SUBMIT, left |-> 9, canvas |-> TRUE] } }
HeroDocs == { [width |-> 1440, height |-> 900, children |-> f] : f \in HeroForests }
HeroGroupNames == { <<>>, << <<>> >>, <<hero>>, << <<"x">> >>, <<Title>> }

\* --- the source files of a session: one or two layers out of a text, a
\* --- vector layer with effects and a group, or no layer at all
SessionLayers ==
    { TextOf(Title, 1, [fontSize |-> 64, fillColor |-> Red]),
      [ name |-> Logo, left |-> 2, vectorMask |-> [paths |-> OneSquare],
        vectorFill |-> [type |-> "color", color |-> DarkGray],
        effects |-> [ dropShadow |-> << [color |-> Blue] >>,
                      gradientOverlay |-> << [gradient |-> GradientOf(Red, Green)] >> ] ],
      [ name |-> HeroSection, left |-> 3,
        children |-> << TextOf(SubmitButton, 4, [fontSize |-> 24]),
                        [name |-> hero, left |-> 5, canvas |-> TRUE] >> ] }
SessionDocs ==
    { [width |-> 1440, height |-> 900, children |-> f] :
        f \in { <<a>> : a \in SessionLayers }
                \cup { <<a, b>> : a \in SessionLayers, b \in SessionLayers } }
        \cup { [width |-> 10, height |-> 10] }
SessionNames == {hero, Title, <<"x">>}

(***************************************************************************)
(* Operations.  The server keeps nothing between two requests: each        *)
(* operation decodes the source file again and answers from it alone.      *)
(***************************************************************************)
NoRequest  == [tool |-> "none"]
NoResponse == [tool |-> "none"]

\* psd.children || []
RawLayers(p) == IF Has(p, "children") THEN p.children ELSE <<>>

\* the fill colour of the first layer's text, layer.text?.style?.fillColor
FirstFill(p) ==
    IF RawLayers(p) = <<>> THEN <<>>
    ELSE Opt(Opt(Get(RawLayers(p)[1], "text"), "style"), "fillColor")

\* anyColorToHex applied to the fill colour of the first layer
AnyColorToHex ==
    /\ RawLayers(psd) # <<>>
    /\ request = NoRequest
    /\ request'  = [tool |-> "anyColorToHex", color |-> FirstFill(psd)]
    /\ response' = [tool |-> "anyColorToHex", hex |-> anyColorToHex(FirstFill(psd))]
    /\ UNCHANGED psd

\* parse_psd, lines 1599-1610
ParsePsd ==
    /\ request = NoRequest
    /\ request'  = [tool |-> "parse_psd"]
    /\ response' = [tool |-> "parse_psd", psdInfo |-> parsePsdFile(psd)]
    /\ UNCHANGED psd

\* extract_colors, lines 1046-1078: the palette and the "no colors" test
ExtractColors ==
    /\ request = NoRequest
    /\ request'  = [tool |-> "extract_colors"]
    /\ \E palette \in { extractAllColors(RawLayers(psd)) } :
          response' = [ tool     |-> "extract_colors",
                        palette  |-> palette,
                        noColors |-> Len(palette.uniqueColors) = 0
                                     /\ Len(palette.gradients) = 0 ]
    /\ UNCHANGED psd

\* layers.map((l) => l.name)
LayerNames(layers) == [i \in 1..Len(layers) |-> layers[i].name]

\* Array.prototype.join
RECURSIVE JoinFrom(_, _, _)
JoinFrom(strings, separator, i) ==
    IF i > Len(strings) THEN <<>>
    ELSE IF i = Len(strings) THEN strings[i]
    ELSE strings[i] \o separator \o JoinFrom(strings, separator, i + 1)
join(strings, separator) == JoinFrom(strings, separator, 1)

\* the suggestions without the slice
slice5_All(list) == list

\* similar.slice(0, 5)
slice5(list) == SubSeq(list, 1, IF Len(list) < 5 THEN Len(list) ELSE 5)

\* suggestions || "none", lines 1523-1532
none == <<"n","o","n","e">>
Suggestions(similar) ==
    IF join(LayerNames(slice5(similar)), <<",", " ">>) = <<>> THEN none
    ELSE join(LayerNames(slice5(similar)), <<",", " ">>)

\* the two returns of get_layer_by_name, lines 1517-1545
LayerNotFound(similar) ==
    [ tool        |-> "get_layer_by_name",
      isError     |-> FALSE,
      notFound    |-> TRUE,
      layer       |-> <<>>,
      similar     |-> LayerNames(slice5(similar)),
      suggestions |-> Suggestions(similar) ]
LayerFound(layer) ==
    [ tool        |-> "get_layer_by_name",
      isError     |-> FALSE,
      notFound    |-> FALSE,
      layer       |-> <<layer>>,
      similar     |-> <<>>,
      suggestions |-> <<>> ]

\* get_layer_by_name, lines 1501-1546; exact is optional (exact ?? false)
GetLayerByName(name, exact) ==
    /\ request = NoRequest
    /\ request' = [tool |-> "get_layer_by_name", name |-> name, exact |-> exact]
    /\ \E psdInfo \in { parsePsdFile(psd) } :
       \E layer \in { findLayerByName(psdInfo.layers, name,
                                      IF exact = <<>> THEN FALSE ELSE exact[1]) } :
          IF layer = <<>>
          THEN \E similar \in { searchLayersByName(psdInfo.layers,
                                     SubSeq(name, 1, IF Len(name) < 3 THEN Len(name) ELSE 3)) } :
                  response' = LayerNotFound(similar)
          ELSE response' = LayerFound(layer[1])
    /\ UNCHANGED psd

\* searchLayersByName applied to the built tree
SearchLayersByName(name) ==
    /\ request = NoRequest
    /\ request'  = [tool |-> "searchLayersByName", name |-> name]
    /\ response' = [ tool    |-> "searchLayersByName",
                     results |-> searchLayersByName(parsePsdFile(psd).layers, name) ]
    /\ UNCHANGED psd

\* limitDepth(layers, 0, maxDepth) applied to the built tree
LimitDepth(maxDepth) ==
    /\ request = NoRequest
    /\ request'  = [tool |-> "limitDepth", maxDepth |-> maxDepth]
    /\ response' = [ tool   |-> "limitDepth",
                     layers |-> limitDepth(parsePsdFile(psd).layers, 0, maxDepth) ]
    /\ UNCHANGED psd

\* list_layers, lines 1449-1499; depth is optional
ListLayers(depth) ==
    /\ request = NoRequest
    /\ request' = [tool |-> "list_layers", depth |-> depth]
    /\ LET psdInfo      == parsePsdFile(psd)
           layersToShow == LayersToShow(psdInfo.layers, depth)
       IN  response' = [ tool         |-> "list_layers",
                         width        |-> psdInfo.width,
                         height       |-> psdInfo.height,
                         layersToShow |-> layersToShow,
                         tree         |-> formatLayerTree(layersToShow, <<>>) ]
    /\ UNCHANGED psd

\* a handler that keeps its last response after it has returned
Reply_KeepsResponse ==
    /\ request # NoRequest
    /\ request'  = NoRequest
    /\ UNCHANGED <<psd, response>>

\* the handler has returned: the response is sent and nothing of the request
\* is kept
Reply ==
    /\ request # NoRequest
    /\ request'  = NoRequest
    /\ response' = NoResponse
    /\ UNCHANGED psd

\* the catch without the isError flag of line 1723
ErrorResponse_NotFlagged(tool, message) ==
    [tool |-> tool, isError |-> FALSE, message |-> message,
     text |-> <<"Error: ", message>>]

\* the catch of lines 1714-1725: the text `Error: ${message}`, flagged
ErrorResponse(tool, message) ==
    [tool |-> tool, isError |-> TRUE, message |-> message,
     text |-> <<"Error: ", message>>]

\* a path that names no file, and a file that the decoder rejects with an
\* error of the given message
NoFile == [exists |-> FALSE]
Rejected(message) == [exists |-> TRUE, rejected |-> message]

\* fs.existsSync(absolutePath)
existsSync(p) == ~Has(p, "exists") \/ p.exists

\* readPsd(buffer, ...): the decoded document, or the error of the decoder
readPsd(p) == IF Has(p, "rejected") THEN Throws(p.rejected) ELSE Returns(p)

\* `File not found: ${absolutePath}` for the path of the request
FileNotFound == "File not found: absolutePath"

\* the test, the read and the decoding that every tool starts with, lines
\* 127-138 and 1051-1062
OpenPsd(p) == IF ~existsSync(p) THEN Throws(FileNotFound) ELSE readPsd(p)

\* the cases of the switch, lines 1046-1636
ToolNames ==
    { "extract_colors", "export_all_vectors_as_svg", "export_images",
      "list_vector_layers", "export_vector_as_svg", "list_layers",
      "get_layer_by_name", "get_layer_children", "parse_psd",
      "get_text_layers", "get_hero_section" }

\* `Unknown tool: ${name}` for the names that are asked for
UnknownNames == { "resize_psd", "Parse_PSD" }
UnknownToolMessage(name) ==
    IF name = "resize_psd" THEN "Unknown tool: resize_psd"
    ELSE "Unknown tool: Parse_PSD"

\* the default branch of the switch, lines 1711-1712, and the catch
UnknownTool(name) ==
    /\ name \notin ToolNames
    /\ request = NoRequest
    /\ request'  = [tool |-> name]
    /\ response' = ErrorResponse(name, UnknownToolMessage(name))
    /\ UNCHANGED psd

\* a tool whose source file is missing or rejected by the decoder: the
\* error is thrown before anything is handled, and caught
SourceFails(name) ==
    /\ name \in ToolNames
    /\ request = NoRequest
    /\ OpenPsd(psd).throws
    /\ request'  = [tool |-> name]
    /\ response' = ErrorResponse(name, OpenPsd(psd).message)
    /\ UNCHANGED psd

\* allVectors.slice(0, 5).map((l) => l.name)
RawNames(layers) ==
    [i \in 1..(IF Len(layers) < 5 THEN Len(layers) ELSE 5) |-> Get(layers[i], "name")]

\* the three returns of export_vector_as_svg, lines 1408-1446
VectorNotFound(p) ==
    [ tool |-> "export_vector_as_svg", isError |-> FALSE, notFound |-> TRUE,
      available |-> RawNames(getAllVectorLayers(RawLayers(p))),
      svg |-> <<>>, written |-> <<>> ]
VectorExported(svg, outputPath) ==
    [ tool |-> "export_vector_as_svg", isError |-> FALSE, notFound |-> FALSE,
      available |-> <<>>,
      svg     |-> IF outputPath = <<>> THEN <<svg>> ELSE <<>>,
      written |-> IF outputPath = <<>> THEN <<>>
                  ELSE << [file |-> outputPath[1], content |-> svg] >> ]

\* export_vector_as_svg, lines 1383-1447, of a file that exists
ExportVectorAsSvg(layerName, outputPath) ==
    /\ request = NoRequest
    /\ request' = [ tool |-> "export_vector_as_svg", layerName |-> layerName,
                    outputPath |-> outputPath ]
    /\ \E vectorLayer \in { findVectorLayer(RawLayers(psd), layerName) } :
          IF vectorLayer = <<>>
          THEN response' = VectorNotFound(psd)
          ELSE \E svg \in { vectorLayerToSvg(vectorLayer[1], psd.width, psd.height) } :
                  response' = IF svg.throws
                              THEN ErrorResponse("export_vector_as_svg", svg.message)
                              ELSE VectorExported(svg.value, outputPath)
    /\ UNCHANGED psd

\* vectorLayerToSvg applied to the first layer of the document, inside the
\* try of the handler
VectorLayerToSvg ==
    /\ RawLayers(psd) # <<>>
    /\ request = NoRequest
    /\ request' = [tool |-> "vectorLayerToSvg"]
    /\ \E svg \in { vectorLayerToSvg(RawLayers(psd)[1], psd.width, psd.height) } :
          response' = IF svg.throws THEN ErrorResponse("vectorLayerToSvg", svg.message)
                      ELSE [ tool |-> "vectorLayerToSvg", isError |-> FALSE,
                             svg |-> <<svg.value>> ]
    /\ UNCHANGED psd

\* findGroup of lines 1201-1215
GroupMatch(layer, groupName) ==
    /\ Has(layer, "name")
    /\ includes(toLowerCase(layer.name), toLowerCase(groupName))
    /\ Has(layer, "children")
RECURSIVE findGroup(_, _)
findGroup(layers, groupName) ==
    LET Step(i) ==
            IF GroupMatch(layers[i], groupName) THEN <<layers[i]>>
            ELSE IF Has(layers[i], "children")
            THEN findGroup(layers[i].children, groupName)
            ELSE <<>>
        returns == { i \in 1..Len(layers) : Step(i) # <<>> }
    IN  IF returns = {} THEN <<>>
        ELSE Step(CHOOSE i \in returns : \A j \in returns : i <= j)

\* lines 1198-1220: the layers the bulk export goes through
BulkVectorLayers(p, groupName) ==
    IF groupName # <<>> /\ groupName[1] # <<>>
    THEN IF findGroup(RawLayers(p), groupName[1]) = <<>> THEN <<>>
         ELSE getAllVectorLayers(findGroup(RawLayers(p), groupName[1])[1].children)
    ELSE getAllVectorLayers(RawLayers(p))

\* sanitizeFilename(layer.name || "unnamed") + ".svg"
unnamed == <<"u","n","n","a","m","e","d">>
SvgFilename(layer) ==
    sanitizeFilename(IF Has(layer, "name") /\ layer.name # <<>> THEN layer.name
                     ELSE unnamed)
        \o <<".", "s", "v", "g">>

\* one iteration of the loop of lines 1236-1246: the file written and the
\* name pushed, nothing when the conversion or the write throws
ExportOne(layer, p, writeThrows) ==
    IF vectorLayerToSvg(layer, p.width, p.height).throws \/ writeThrows THEN <<>>
    ELSE << [ file    |-> SvgFilename(layer),
              content |-> vectorLayerToSvg(layer, p.width, p.height).value ] >>

\* the loop without the try: the first failure ends it
ExportLoop_StopAtFailure(vectorLayers, p, writeFails) ==
    Flatten([i \in 1..Len(vectorLayers) |->
                IF \E j \in 1..(i - 1) :
                      ExportOne(vectorLayers[j], p, j \in writeFails) = <<>>
                THEN <<>>
                ELSE ExportOne(vectorLayers[i], p, i \in writeFails)])

ExportLoop(vectorLayers, p, writeFails) ==
    Flatten([i \in 1..Len(vectorLayers) |->
                ExportOne(vectorLayers[i], p, i \in writeFails)])

FileNames(written) == [i \in 1..Len(written) |-> written[i].file]

BulkResponse(vectorLayers, written) ==
    IF Len(vectorLayers) = 0
    THEN [ tool |-> "export_all_vectors_as_svg", isError |-> FALSE,
           noVectors |-> TRUE, count |-> 0, exported |-> <<>>, written |-> <<>> ]
    ELSE [ tool |-> "export_all_vectors_as_svg", isError |-> FALSE,
           noVectors |-> FALSE, count |-> Len(written),
           exported |-> FileNames(written), written |-> written ]

\* export_all_vectors_as_svg, lines 1169-1256, of a file that exists;
\* writeFails are the iterations in which writeFileSync throws
ExportAllVectorsAsSvg(groupName, writeFails) ==
    /\ request = NoRequest
    /\ writeFails \subseteq 1..Len(BulkVectorLayers(psd, groupName))
    /\ request' = [ tool |-> "export_all_vectors_as_svg", groupName |-> groupName,
                    writeFails |-> writeFails ]
    /\ \E vectorLayers \in { BulkVectorLayers(psd, groupName) } :
       \E written \in { ExportLoop(vectorLayers, psd, writeFails) } :
          response' = BulkResponse(vectorLayers, written)
    /\ UNCHANGED psd

\* sanitizeFilename applied to the name of the first layer
SanitizeFilename ==
    /\ RawLayers(psd) # <<>>
    /\ Has(RawLayers(psd)[1], "name")
    /\ request = NoRequest
    /\ request'  = [tool |-> "sanitizeFilename", name |-> RawLayers(psd)[1].name]
    /\ response' = [ tool     |-> "sanitizeFilename",
                     filename |-> sanitizeFilename(RawLayers(psd)[1].name) ]
    /\ UNCHANGED psd

\* get_hero_section, lines 1636-1709; heroGroupName is optional
GetHeroSection(heroGroupName) ==
    /\ request = NoRequest
    /\ request' = [tool |-> "get_hero_section", heroGroupName |-> heroGroupName]
    /\ \E psdInfo \in { parsePsdFile(psd) } :
       \E heroLayers \in { HeroLayers(psdInfo.layers, heroGroupName) } :
       \E sorted \in { SortBySize(getTextLayers(heroLayers)) } :
          response' = Categorized(psdInfo, heroLayers, sorted)
    /\ UNCHANGED psd

\* get_text_layers, lines 1612-1634
GetTextLayers ==
    /\ request = NoRequest
    /\ request' = [tool |-> "get_text_layers"]
    /\ \E psdInfo \in { parsePsdFile(psd) } :
          response' = [ tool         |-> "get_text_layers",
                        isError      |-> FALSE,
                        documentSize |-> [width |-> psdInfo.width, height |-> psdInfo.height],
                        textLayers   |-> getTextLayers(psdInfo.layers) ]
    /\ UNCHANGED psd

\* the three returns of get_layer_children, lines 1561-1596
GroupNotFound(groupName) ==
    [ tool |-> "get_layer_children", isError |-> FALSE, outcome |-> "not found",
      name |-> groupName, type |-> "", count |-> 0, tree |-> <<>>, detailed |-> <<>> ]
NoChildren(group) ==
    [ tool |-> "get_layer_children", isError |-> FALSE, outcome |-> "no children",
      name |-> group.name, type |-> group.type, count |-> 0,
      tree |-> <<>>, detailed |-> <<>> ]
ChildrenOf(group, format) ==
    [ tool |-> "get_layer_children", isError |-> FALSE, outcome |-> "children",
      name |-> group.name, type |-> group.type, count |-> Len(group.children[1]),
      tree     |-> IF format = <<>> \/ format = <<"tree">>
                   THEN formatLayerTree(group.children[1], <<>>) ELSE <<>>,
      detailed |-> IF format = <<>> \/ format = <<"tree">> THEN <<>>
                   ELSE group.children[1] ]

\* get_layer_children, lines 1548-1597; format is optional (format ?? "tree")
GetLayerChildren(groupName, format) ==
    /\ request = NoRequest
    /\ request' = [tool |-> "get_layer_children", groupName |-> groupName, format |-> format]
    /\ \E psdInfo \in { parsePsdFile(psd) } :
       \E group \in { findLayerByName(psdInfo.layers, groupName, FALSE) } :
          response' = IF group = <<>> THEN GroupNotFound(groupName)
                      ELSE IF group[1].children = <<>> \/ Len(group[1].children[1]) = 0
                      THEN NoChildren(group[1])
                      ELSE ChildrenOf(group[1], format)
    /\ UNCHANGED psd

\* the source file is replaced between two requests: parsePsdFile reads it
\* from the disk in every request, lines 126-135
SourceChanges(docs) ==
    /\ request = NoRequest
    /\ psd' \in docs
    /\ psd' # psd
    /\ UNCHANGED <<request, response>>

(***************************************************************************)
(* Specifications                                                          *)
(***************************************************************************)
\* the tree builder over single layers of every property combination
Init == psd \in BuildDocs /\ request = NoRequest /\ response = NoResponse
Next == ParsePsd \/ ExtractColors \/ Reply
Spec == Init /\ [][Next]_vars

\* the colour converters over every colour input
InitColor == psd \in ColorDocs /\ request = NoRequest /\ response = NoResponse
NextColor == AnyColorToHex \/ ParsePsd \/ ExtractColors \/ Reply
SpecColor == InitColor /\ [][NextColor]_vars

\* the layer index over every small forest
Depths == {<<>>} \cup { <<d>> : d \in 0..MaxNodes }
InitIndex == psd \in IndexDocs /\ request = NoRequest /\ response = NoResponse
NextIndex ==
    \/ ParsePsd
    \/ \E q \in Queries, exact \in {<<>>, <<TRUE>>, <<FALSE>>} : GetLayerByName(q, exact)
    \/ \E q \in Queries : SearchLayersByName(q)
    \/ \E d \in 0..MaxNodes : LimitDepth(d)
    \/ \E depth \in Depths : ListLayers(depth)
    \/ Reply
SpecIndex == InitIndex /\ [][NextIndex]_vars


\* the vector export over masks, fills, strokes, forests and layer names
InitVector == psd \in VectorDocs /\ request = NoRequest /\ response = NoResponse
NextVector ==
    \/ \E q \in VectorQueries, out \in {<<>>, <<Slash>>} : ExportVectorAsSvg(q, out)
    \/ VectorLayerToSvg
    \/ \E g \in {<<>>, <<Icons>>}, fails \in SUBSET (1..3) : ExportAllVectorsAsSvg(g, fails)
    \/ SanitizeFilename
    \/ Reply
SpecVector == InitVector /\ [][NextVector]_vars

\* the harvester over forests of layers with every kind of contribution
InitPalette == psd \in PaletteDocs /\ request = NoRequest /\ response = NoResponse
NextPalette == ExtractColors \/ Reply
SpecPalette == InitPalette /\ [][NextPalette]_vars

\* the hero classifier over every scope of up to MaxHero layers
InitHero == psd \in HeroDocs /\ request = NoRequest /\ response = NoResponse
NextHero ==
    \/ \E g \in HeroGroupNames : GetHeroSection(g)
    \/ ParsePsd
    \/ Reply
SpecHero == InitHero /\ [][NextHero]_vars

\* the seven queries over source files that are replaced between requests
InitSession == psd \in SessionDocs /\ request = NoRequest /\ response = NoResponse
NextSession ==
    \/ ParsePsd
    \/ \E depth \in {<<>>, <<0>>, <<1>>} : ListLayers(depth)
    \/ \E q \in SessionNames, exact \in {<<>>, <<TRUE>>} : GetLayerByName(q, exact)
    \/ \E g \in SessionNames, format \in {<<>>, <<"tree">>, <<"detailed">>} :
          GetLayerChildren(g, format)
    \/ GetTextLayers
    \/ \E g \in {<<>>, <<hero>>} : GetHeroSection(g)
    \/ ExtractColors
    \/ SourceChanges(SessionDocs)
    \/ Reply
SpecSession == InitSession /\ [][NextSession]_vars

\* the handler over source files that are missing, rejected by the decoder,
\* decoded, or decoded with a vector mask that carries no paths
HandlerFiles ==
    SessionDocs
        \cup { NoFile, Rejected("Invalid PSD file signature"),
               Rejected("Offset is outside the bounds of the DataView"),
               VectorDoc(<< [name |-> Title, vectorMask |-> [open |-> FALSE]] >>) }
InitHandler == psd \in HandlerFiles /\ request = NoRequest /\ response = NoResponse
NextHandler ==
    \/ \E name \in UnknownNames : UnknownTool(name)
    \/ \E name \in ToolNames : SourceFails(name)
    \/ ~OpenPsd(psd).throws /\ ParsePsd
    \/ ~OpenPsd(psd).throws /\ \E q \in SessionNames : GetLayerByName(q, <<>>)
    \/ ~OpenPsd(psd).throws /\ \E n \in SessionNames : ExportVectorAsSvg(n, <<>>)
    \/ ~OpenPsd(psd).throws /\ GetTextLayers
    \/ SourceChanges(HandlerFiles)
    \/ Reply
SpecHandler == InitHandler /\ [][NextHandler]_vars


(***************************************************************************)
(* Properties                                                              *)
(***************************************************************************)
\* the raw layers of a forest next to the layers built from them, pre-order
RECURSIVE BuiltPairs(_, _)
BuiltPairs(raws, infos) ==
    Flatten([i \in 1..Len(raws) |->
        << [raw |-> raws[i], info |-> infos[i]] >>
        \o (IF infos[i].children # <<>>
            THEN BuiltPairs(raws[i].children, infos[i].children[1])
            ELSE <<>>)])

ParsedPairs == BuiltPairs(RawLayers(psd), response.psdInfo.layers)

Parsed == response.tool = "parse_psd"

\* C1: every built layer has exactly one of the five types, chosen by first
\* match: text if the raw layer has text, else group if it has at least one
\* child, else image if it has canvas data, else shape if it has a vector
\* mask or a vector stroke, else unknown.
ClassifiedByPrecedence(raw, type) ==
    LET isText  == "text" \in DOMAIN raw
        isGroup == "children" \in DOMAIN raw /\ raw.children # <<>>
        isImage == "canvas" \in DOMAIN raw
        isShape == "vectorMask" \in DOMAIN raw \/ "vectorStroke" \in DOMAIN raw
    IN  /\ type \in {"text", "group", "image", "shape", "unknown"}
        /\ isText => type = "text"
        /\ ~isText /\ isGroup => type = "group"
        /\ ~isText /\ ~isGroup /\ isImage => type = "image"
        /\ ~isText /\ ~isGroup /\ ~isImage /\ isShape => type = "shape"
        /\ ~isText /\ ~isGroup /\ ~isImage /\ ~isShape => type = "unknown"

C1_TypeByPrecedence ==
    Parsed => \A i \in 1..Len(ParsedPairs) :
                 ClassifiedByPrecedence(ParsedPairs[i].raw, ParsedPairs[i].info.type)

\* a layer with text and with children has been built, as a text layer
C1_Witness ==
    /\ Parsed
    /\ \E i \in 1..Len(ParsedPairs) :
          /\ "text" \in DOMAIN ParsedPairs[i].raw
          /\ "children" \in DOMAIN ParsedPairs[i].raw
          /\ Len(ParsedPairs[i].raw.children) = 2
          /\ "canvas" \in DOMAIN ParsedPairs[i].raw
          /\ ParsedPairs[i].info.type = "text"

\* C6 as claimed: the opacity of every built layer is raw/255, or 1 when the
\* raw opacity is absent, and lies in [0,1] whatever the raw value.
OpacityAsClaimed(raw, opacity) ==
    /\ IF "opacity" \in DOMAIN raw
       THEN opacity.n * 255 = raw.opacity * opacity.d
       ELSE opacity.n = opacity.d
    /\ 0 <= opacity.n /\ opacity.n <= opacity.d

C6_OpacityInUnitRange ==
    Parsed => \A i \in 1..Len(ParsedPairs) :
                 OpacityAsClaimed(ParsedPairs[i].raw, ParsedPairs[i].info.opacity)

\* a string of '#' followed by exactly six uppercase hexadecimal digits
UpperHexChars == {"0","1","2","3","4","5","6","7","8","9","A","B","C","D","E","F"}
CanonicalHex(h) ==
    /\ Len(h) = 7
    /\ h[1] = "#"
    /\ \A i \in 2..7 : h[i] \in UpperHexChars

Normalized == response.tool = "anyColorToHex"

\* C2 as claimed: for every colour input, with channels out of range or
\* missing, anyColorToHex returns none or '#' and six uppercase hex digits.
C2_AlwaysCanonicalHex ==
    Normalized => \/ response.hex = <<>>
                  \/ CanonicalHex(response.hex)

\* C3: the encoding is selected by field presence in the fixed order
\* fractional RGB, integer RGB, grayscale (k and no c), HSB, Lab, CMYK, the
\* first match winning and none resulting when nothing matches; grayscale is
\* r = g = b = round((1-k)*255), CMYK is round(255*(1-c)*(1-k)) with m and y
\* for g and b, and {c:0, m:0, y:0, k:1} gives #000000.
Shapes ==
    << [need |-> {"fr"},               forbid |-> {},    uses |-> {"fr", "fg", "fb"}],
       [need |-> {"r"},                forbid |-> {},    uses |-> {"r", "g", "b"}],
       [need |-> {"k"},                forbid |-> {"c"}, uses |-> {"k"}],
       [need |-> {"h", "s", "b"},      forbid |-> {},    uses |-> {"h", "s", "b"}],
       [need |-> {"l", "a"},           forbid |-> {},    uses |-> {"l", "a", "b"}],
       [need |-> {"c", "m", "y", "k"}, forbid |-> {},    uses |-> {"c", "m", "y", "k"}] >>

Matches(c, i) ==
    /\ Shapes[i].need \subseteq DOMAIN c
    /\ Shapes[i].forbid \cap DOMAIN c = {}

\* the index of the first shape the colour matches, 0 when it matches none
FirstShape(c) ==
    IF \E i \in 1..6 : Matches(c, i)
    THEN CHOOSE i \in 1..6 : Matches(c, i) /\ \A j \in 1..(i - 1) : ~Matches(c, j)
    ELSE 0

\* the colour reduced to the channels of the shape i
OnlyShape(c, i) == [f \in DOMAIN c \cap Shapes[i].uses |-> c[f]]

UpperHexSeq == <<"0","1","2","3","4","5","6","7","8","9","A","B","C","D","E","F">>
Byte(n) == IF n < 0 THEN 0 ELSE IF n > 255 THEN 255 ELSE n
TwoHex(n) == <<UpperHexSeq[(Byte(n) \div 16) + 1], UpperHexSeq[(Byte(n) % 16) + 1]>>
HexOf(r, g, b) == <<"#">> \o TwoHex(r) \o TwoHex(g) \o TwoHex(b)

Black == <<"#", "0", "0", "0", "0", "0", "0">>
CmykBlack == [c |-> 0, m |-> 0, y |-> 0, k |-> FP]

SelectedInOrder(c, hex) ==
    /\ (FirstShape(c) = 0) <=> (hex = <<>>)
    /\ FirstShape(c) > 0 => hex = anyColorToHex(<<OnlyShape(c, FirstShape(c))>>)
    /\ FirstShape(c) = 3 =>
          hex = HexOf(Round((FP - c.k) * 255, FP), Round((FP - c.k) * 255, FP),
                      Round((FP - c.k) * 255, FP))
    /\ FirstShape(c) = 6 =>
          hex = HexOf(Round(255 * (FP - c.c) * (FP - c.k), FP * FP),
                      Round(255 * (FP - c.m) * (FP - c.k), FP * FP),
                      Round(255 * (FP - c.y) * (FP - c.k), FP * FP))
    /\ c = CmykBlack => hex = Black

C3_SelectionOrder ==
    Normalized /\ request.color # <<>> =>
        SelectedInOrder(request.color[1], response.hex)

\* the CMYK black, which carries k next to c, has been converted as CMYK
C3_Witness ==
    /\ Normalized
    /\ request.color = <<CmykBlack>>
    /\ FirstShape(CmykBlack) = 6
    /\ response.hex = Black

\* C4: anyColorToHex returns none for an absent colour and for a colour
\* that matches none of the six shapes; the harvester then records nothing
\* for that text fill and goes on to the next contribution, the vector fill
\* of the second layer.
Unsupported(col) == col = <<>> \/ FirstShape(col[1]) = 0

Harvested == response.tool = "extract_colors"

ShapeEntry ==
    [ hex       |-> <<"#", "1", "A", "1", "A", "1", "A">>,
      rgb       |-> [r |-> Num(26), g |-> Num(26), b |-> Num(26)],
      source    |-> [base |-> "vector-fill", suffix |-> 0],
      layerName |-> Logo ]

C4_NoneIsSkipped ==
    /\ Normalized /\ Unsupported(request.color) => response.hex = <<>>
    /\ Harvested /\ Unsupported(FirstFill(psd)) =>
          /\ response.palette.solidColors = <<ShapeEntry>>
          /\ response.palette.uniqueColors = <<ShapeEntry.hex>>
          /\ ~response.noColors

\* the palette of a document whose text fill is present and of no shape
C4_Witness ==
    /\ Harvested
    /\ FirstFill(psd) = << [h |-> 0, s |-> FP] >>
    /\ FirstShape(FirstFill(psd)[1]) = 0
    /\ Len(response.palette.solidColors) = 1
    /\ response.palette.solidColors[1].layerName = Logo

\* the colour of the first layer's text in the built tree
TreeTextColor == response.psdInfo.layers[1].text[1].color

\* C5 as claimed: the text colour of the built tree is absent or the string
\* anyColorToHex returns for the raw fill colour.
C5_TreeColorIsCanonical ==
    Parsed /\ RawLayers(psd) # <<>> =>
        TreeTextColor \in {<<>>, anyColorToHex(FirstFill(psd))}

\* all three channels of the RGB shape i are present and round into 0..255
ChannelInRange(c, f, i) ==
    /\ f \in DOMAIN c
    /\ LET v == IF i = 1 THEN Round(c[f] * 255, FP) ELSE Round(c[f], FP)
       IN  0 <= v /\ v <= 255
RgbInRange(c, i) ==
    IF i = 1
    THEN \A f \in {"fr", "fg", "fb"} : ChannelInRange(c, f, 1)
    ELSE \A f \in {"r", "g", "b"} : ChannelInRange(c, f, 2)

RgbPresent(c, i) ==
    IF i = 1 THEN {"fr", "fg", "fb"} \subseteq DOMAIN c
    ELSE {"r", "g", "b"} \subseteq DOMAIN c

LowerHexChars == {"0","1","2","3","4","5","6","7","8","9","a","b","c","d","e","f"}

TreeColorOf(fill, color) ==
    /\ (fill = <<>> \/ FirstShape(fill[1]) \notin {1, 2}) => color = <<>>
    /\ fill # <<>> /\ FirstShape(fill[1]) \in {1, 2} =>
          IF RgbInRange(fill[1], FirstShape(fill[1]))
          THEN /\ Len(color) = 7
               /\ color[1] = "#"
               /\ \A i \in 2..7 : color[i] \in LowerHexChars
               /\ toUpperCase(color) = anyColorToHex(fill)
          ELSE /\ color # <<>>
               /\ RgbPresent(fill[1], FirstShape(fill[1])) =>
                      toUpperCase(color) # anyColorToHex(fill)

\* C5, amended: the text colour of the built tree comes from colorToHex,
\* which knows the two RGB encodings only: it is absent when the fill is
\* absent or is a grayscale, HSB, Lab or CMYK colour; for an RGB fill whose
\* three channels are present and round into 0..255 it is '#' and six
\* lowercase hex digits, the string of anyColorToHex in lower case; for an
\* RGB fill with a channel missing or out of range it is still present, and
\* with the three channels present and one out of range it is not clamped
\* and differs from the string of anyColorToHex in more than letter case.
C5_TreeColorByColorToHex ==
    Parsed /\ RawLayers(psd) # <<>> => TreeColorOf(FirstFill(psd), TreeTextColor)

\* a dark gray integer RGB fill has been built into the tree in lower case
C5_Witness ==
    /\ Parsed
    /\ FirstFill(psd) = <<DarkGray>>
    /\ TreeTextColor = <<"#", "1", "a", "1", "a", "1", "a">>
    /\ anyColorToHex(FirstFill(psd)) = <<"#", "1", "A", "1", "A", "1", "A">>

\* the layers of a built forest in depth-first pre-order: a parent before
\* its children, siblings in document order
RECURSIVE PreOrder(_)
PreOrder(layers) ==
    Flatten([i \in 1..Len(layers) |->
        <<layers[i]>>
        \o (IF layers[i].children # <<>> THEN PreOrder(layers[i].children[1])
            ELSE <<>>)])

BuiltLayers == parsePsdFile(psd).layers

\* the matching rule of the claim
NameMatches(layerName, query, exact) ==
    IF exact THEN layerName = query
    ELSE \E i \in 1..Len(layerName) + 1 :
            /\ i + Len(query) - 1 <= Len(layerName)
            /\ \A j \in 1..Len(query) :
                  LowerChar(layerName[i + j - 1]) = LowerChar(query[j])

MatchingAt(order, query, exact) ==
    { i \in 1..Len(order) : NameMatches(order[i].name, query, exact) }

FirstMatching(order, query, exact) ==
    IF MatchingAt(order, query, exact) = {} THEN <<>>
    ELSE << order[CHOOSE i \in MatchingAt(order, query, exact) :
                    \A j \in MatchingAt(order, query, exact) : i <= j] >>

Found == response.tool = "get_layer_by_name"

\* C7: findLayerByName returns the first layer in depth-first pre-order that
\* matches, or none; with exact a layer matches when its name equals the
\* query case-sensitively ("Hero" does not match "hero"), without it when
\* its lower-cased name contains the lower-cased query ("hero" matches
\* "Hero Section").
C7_FirstMatchInPreOrder ==
    Found =>
        /\ response.layer =
              FirstMatching(PreOrder(BuiltLayers), request.name, request.exact = <<TRUE>>)
        /\ request.name = Hero /\ request.exact = <<TRUE>> => response.layer = <<>>
        /\ request.name = hero /\ request.exact # <<TRUE>>
              /\ BuiltLayers[1].name = HeroSection
              => response.layer = <<BuiltLayers[1]>>

\* an exact search has returned the child of the first layer although a
\* later top-level layer carries the name as well
C7_Witness ==
    /\ Found
    /\ request.name = hero
    /\ request.exact = <<TRUE>>
    /\ Len(BuiltLayers) >= 2
    /\ BuiltLayers[1].name = HeroSection
    /\ BuiltLayers[2].name = hero
    /\ response.layer # <<>>
    /\ response.layer[1].bounds.left = 2

Searched == response.tool = "searchLayersByName"

\* the elements of order at the positions of hits, in increasing position
Picked(order, hits) ==
    [k \in 1..Cardinality(hits) |->
        order[CHOOSE i \in hits : Cardinality({j \in hits : j < i}) = k - 1]]

\* C8: searchLayersByName returns exactly the layers of the whole tree whose
\* name contains the query case-insensitively, each once, in depth-first
\* pre-order, the children of a matching layer included.
C8_AllMatchesInPreOrder ==
    Searched =>
        response.results =
            Picked(PreOrder(BuiltLayers),
                   MatchingAt(PreOrder(BuiltLayers), request.name, FALSE))

\* a search has returned a matching layer and, after it, its matching child
C8_Witness ==
    /\ Searched
    /\ request.name = hero
    /\ BuiltLayers[1].name = HeroSection
    /\ BuiltLayers[1].children # <<>>
    /\ BuiltLayers[1].children[1][1].name = hero
    /\ Len(response.results) >= 2
    /\ response.results[1] = BuiltLayers[1]
    /\ response.results[2] = BuiltLayers[1].children[1][1]

Listed == response.tool = "list_layers"

\* the children of a listed top-level layer as the claim has them at depth 0
CutAtTop(layer, shown) ==
    IF layer.children # <<>>
    THEN /\ shown.children # <<>>
         /\ Len(shown.children[1]) = 1
         /\ shown.children[1][1].name = PlaceholderName(Len(layer.children[1]))
         /\ shown.children[1][1].children = <<>>
    ELSE shown.children = <<>>

\* C9 as claimed: a listing limited to depth 0 shows, under every top-level
\* layer that has children, exactly one placeholder that reports the number
\* of its direct children, and no child under the others.
C9_DepthZeroCutsAtTop ==
    Listed /\ request.depth = <<0>> =>
        /\ Len(response.layersToShow) = Len(BuiltLayers)
        /\ \A i \in 1..Len(BuiltLayers) :
              CutAtTop(BuiltLayers[i], response.layersToShow[i])

\* the depth of the deepest layer of a forest, its top-level layers being at
\* depth 0
RECURSIVE MaxDepthOf(_)
MaxDepthOf(layers) ==
    LET below == { 1 + MaxDepthOf(layers[i].children[1]) :
                     i \in { j \in 1..Len(layers) : layers[j].children # <<>> } }
    IN  IF below = {} THEN 0
        ELSE CHOOSE d \in below : \A e \in below : e <= d

Limited == response.tool = "limitDepth"

\* C10: for every tree and every N at or above the depth of its deepest
\* layer, limitDepth(tree, N) is the tree itself: the same layers with the
\* same names, types and children in the same order, and no placeholder; so
\* is the listing of list_layers for such a depth.
C10_DeepLimitIsIdentity ==
    /\ Limited /\ request.maxDepth >= MaxDepthOf(BuiltLayers) =>
          response.layers = BuiltLayers
    /\ Listed /\ request.depth # <<>> /\ request.depth[1] >= MaxDepthOf(BuiltLayers) =>
          response.layersToShow = BuiltLayers

\* a tree three levels deep has been limited to the depth of its deepest
\* layer
C10_Witness ==
    /\ Limited
    /\ MaxDepthOf(BuiltLayers) = 2
    /\ request.maxDepth = 2
    /\ response.layers = BuiltLayers

Converted == response.tool = "vectorLayerToSvg" /\ ~response.isError

\* the letters of the commands of a path, in order
Ops(d) == [i \in 1..Len(d) |-> d[i].op]

Repeat(x, n) == [i \in 1..n |-> x]

\* the commands the claim gives a sub-path of n knots
ExpectedOps(n, open) ==
    IF n = 0 THEN <<>>
    ELSE IF open THEN <<"M">> \o Repeat("C", n - 1)
    ELSE <<"M">> \o Repeat("C", n) \o <<"Z">>

MarkedOpen(bezierPath) == "open" \in DOMAIN bezierPath /\ bezierPath.open

ExpectedPathOps(paths) ==
    Flatten([i \in 1..Len(paths) |->
                ExpectedOps(Len(paths[i].knots), MarkedOpen(paths[i]))])

\* C11: a sub-path of n >= 1 knots gives one move-to, then n curves and a
\* close when it is closed, n - 1 curves and no close when it is open; a
\* sub-path without knots gives nothing (2 knots closed: M C C Z, 2 knots
\* open: M C).
C11_CommandsPerSubPath ==
    Converted =>
        Ops(response.svg[1].d) = ExpectedPathOps(RawLayers(psd)[1].vectorMask.paths)

\* a mask of a closed and an open sub-path of two knots each has been
\* converted
C11_Witness ==
    /\ Converted
    /\ RawLayers(psd)[1].vectorMask.paths
          = << [knots |-> KnotsOf(2), open |-> FALSE], [knots |-> KnotsOf(2), open |-> TRUE] >>
    /\ Ops(response.svg[1].d) = <<"M", "C", "C", "Z", "M", "C">>

\* the hex strings of a list of colour entries, and of the stops of a list
\* of gradients
SolidHexes(solidColors) == { solidColors[i].hex : i \in 1..Len(solidColors) }
StopHexes(gradients) ==
    UNION { { gradients[i].colors[j] : j \in 1..Len(gradients[i].colors) } :
              i \in 1..Len(gradients) }
Elements(seq) == { seq[i] : i \in 1..Len(seq) }

UniqueOf(palette) ==
    /\ \A i \in 1..Len(palette.uniqueColors), j \in 1..Len(palette.uniqueColors) :
          i < j => StrLess(palette.uniqueColors[i], palette.uniqueColors[j])
    /\ Elements(palette.uniqueColors) = SolidHexes(palette.solidColors)
    /\ \A h \in StopHexes(palette.gradients) \ SolidHexes(palette.solidColors) :
          h \notin Elements(palette.uniqueColors)

\* C12: uniqueColors is sorted ascending, has no duplicate and is exactly
\* the set of the hex values of solidColors; a colour that occurs only in
\* gradients is not in it.
C12_UniqueColorsOfSolids == Harvested => UniqueOf(response.palette)

\* a palette with a colour recorded twice, three unique colours, and a
\* colour that occurs in a gradient only
C12_Witness ==
    /\ Harvested
    /\ Len(response.palette.uniqueColors) >= 3
    /\ Len(response.palette.solidColors) > Len(response.palette.uniqueColors)
    /\ StopHexes(response.palette.gradients) \ SolidHexes(response.palette.solidColors) # {}

Classified == response.tool = "get_hero_section"

\* the scope of the classification and its text layers, flattened
Scope == HeroLayers(BuiltLayers, request.heroGroupName)
TextPositions(order) == { i \in 1..Len(order) : order[i].type = "text" }
TextsIn(order) == Picked(order, TextPositions(order))
ScopeTexts == TextsIn(PreOrder(Scope))

\* the font size of a text layer, 0 when it has none
SizeOf(layer) ==
    IF layer.text # <<>> /\ layer.text[1].fontSize # <<>> THEN layer.text[1].fontSize[1]
    ELSE 0

\* the place of the i-th text layer: behind every larger one and behind the
\* earlier ones of its size
Rank(texts, i) ==
    1 + Cardinality({ j \in 1..Len(texts) : SizeOf(texts[j]) > SizeOf(texts[i]) })
      + Cardinality({ j \in 1..(i - 1) : SizeOf(texts[j]) = SizeOf(texts[i]) })

AtRank(texts, r) ==
    IF r <= Len(texts) THEN << texts[CHOOSE i \in 1..Len(texts) : Rank(texts, i) = r] >>
    ELSE <<>>

RolesOf(texts, heading, subheading, body) ==
    /\ heading = AtRank(texts, 1)
    /\ subheading = AtRank(texts, 2)
    /\ Len(body) = (IF Len(texts) > 2 THEN Len(texts) - 2 ELSE 0)
    /\ \A k \in 1..Len(body) : <<body[k]>> = AtRank(texts, k + 2)

\* C13: the text layers of the scope are ordered by fontSize descending, an
\* absent fontSize counting as 0 and equal sizes keeping document order;
\* the first is heading, the second subheading, the others body; heading
\* and subheading are none and body is empty when there are not enough.
C13_RolesByFontSize ==
    Classified =>
        \A texts \in { ScopeTexts } :
            RolesOf(texts, response.heading, response.subheading, response.body)

\* the font sizes 12, 64, 24 have given heading 64, subheading 24, body 12
C13_Witness ==
    /\ Classified
    /\ Len(ScopeTexts) = 3
    /\ SizeOf(ScopeTexts[1]) = 12 /\ SizeOf(ScopeTexts[2]) = 64 /\ SizeOf(ScopeTexts[3]) = 24
    /\ response.heading = <<ScopeTexts[2]>>
    /\ response.subheading = <<ScopeTexts[3]>>
    /\ response.body = <<ScopeTexts[1]>>

\* the keywords of the claim
CtaWords ==
    { <<"b","u","t","t","o","n">>, <<"c","t","a">>, <<"b","t","n">>,
      <<"a","c","t","i","o","n">>, <<"c","l","i","c","k">>, <<"s","u","b","m","i","t">> }

NamedAsCta(layerName) == \E kw \in CtaWords : NameMatches(layerName, kw, FALSE)

CtaPositions(scope) == { i \in 1..Len(scope) : NamedAsCta(scope[i].name) }

\* C14: cta is exactly the direct layers of the scope whose lower-cased name
\* contains one of the keywords, each once and in scope order, whatever
\* role they have as texts; layers nested deeper are not in it.
C14_CtaOfDirectLayers ==
    Classified =>
        \A scope \in { Scope } : response.cta = Picked(scope, CtaPositions(scope))

\* "Submit Button" is the heading and in cta, the plain layer "SUBMIT" is in
\* cta, and the text "Click me" inside a box of the scope is not
C14_Witness ==
    /\ Classified
    /\ Len(Scope) = 3
    /\ Scope[1].name = SubmitButton
    /\ Scope[2].name = SUBMIT
    /\ Scope[3].name = Box
    /\ NamedAsCta(Scope[3].children[1][1].name)
    /\ response.heading = <<Scope[1]>>
    /\ response.cta = <<Scope[1], Scope[2]>>

Sanitized == response.tool = "sanitizeFilename"

Clean(filename) ==
    \A i \in 1..Len(filename) : filename[i] \notin ReservedChars \cup WhitespaceChars

\* C15: sanitizeFilename is idempotent, and its result contains none of the
\* characters < > : " / \ | ? * and no whitespace.
C15_SanitizeIdempotentAndClean ==
    Sanitized =>
        /\ response.filename = sanitizeFilename(request.name)
        /\ sanitizeFilename(response.filename) = response.filename
        /\ Clean(response.filename)

\* a name with two reserved characters around a run of whitespace has been
\* sanitized, the run giving one underscore
C15_Witness ==
    /\ Sanitized
    /\ request.name = <<"a", "?", " ", "?", "b">>
    /\ response.filename = <<"a", "_", "_", "_", "b">>

\* a conversion of the first layer of the document that gave SVG text
Emitted == response.tool = "vectorLayerToSvg" /\ ~response.isError
FirstLayer == RawLayers(psd)[1]

\* the channel is the number rounded to the nearest integer, halves upwards,
\* and not clamped; NaN when the colour does not carry it
ChannelIs(num, color, f) ==
    IF Has(color, f)
    THEN /\ ~num.nan
         /\ 2 * num.v * FP <= 2 * color[f] + FP
         /\ 2 * color[f] + FP < 2 * (num.v + 1) * FP
    ELSE num.nan

IsRgbOf(fill, color) ==
    /\ fill.css = "rgb"
    /\ ChannelIs(fill.r, color, "r")
    /\ ChannelIs(fill.g, color, "g")
    /\ ChannelIs(fill.b, color, "b")

\* a solid fill whose colour is given by integer channels r, g, b
SolidRgbFill(layer) ==
    /\ Has(layer, "vectorFill")
    /\ layer.vectorFill.type = "color"
    /\ Has(layer.vectorFill.color, "r")

GradientVectorFill(layer) ==
    Has(layer, "vectorFill") /\ Has(layer.vectorFill, "colorStops")

\* C16 (as the code has it): a solid vector fill whose colour carries r
\* gives rgb(r, g, b) of the rounded, unclamped channels; every other
\* vector fill that is present, a gradient or a solid colour in another
\* encoding, gives #000000; a layer without a vector fill gives none.
C16_FillOfVectorFill ==
    Emitted =>
        IF ~Has(FirstLayer, "vectorFill") THEN response.svg[1].fill = CssNone
        ELSE IF SolidRgbFill(FirstLayer)
        THEN IsRgbOf(response.svg[1].fill, FirstLayer.vectorFill.color)
        ELSE response.svg[1].fill = CssBlack

\* a layer with a gradient vector fill has been emitted with fill #000000
C16_Witness ==
    /\ Emitted
    /\ GradientVectorFill(FirstLayer)
    /\ response.svg[1].fill = CssBlack

\* C16 as stated: a solid fill yields that colour, a gradient vector fill
\* yields fill none, and a layer without a vector fill yields fill none.
C16_GradientFillIsNone ==
    Emitted =>
        /\ SolidRgbFill(FirstLayer) =>
              IsRgbOf(response.svg[1].fill, FirstLayer.vectorFill.color)
        /\ GradientVectorFill(FirstLayer) => response.svg[1].fill = CssNone
        /\ ~Has(FirstLayer, "vectorFill") => response.svg[1].fill = CssNone

VectorDataMissing == "Layer does not have vector data"

\* the conversion was asked of a layer that has no vector mask
AskedOfMaskless ==
    /\ request # NoRequest
    /\ request.tool = "vectorLayerToSvg"
    /\ ~Has(FirstLayer, "vectorMask")

RECURSIVE RawPreOrder(_)
RawPreOrder(layers) ==
    Flatten([i \in 1..Len(layers) |->
        <<layers[i]>> \o (IF Has(layers[i], "children") THEN RawPreOrder(layers[i].children)
                          ELSE <<>>)])

\* the export tool was asked for a name that only layers without a vector
\* mask carry
AskedForMaskless ==
    /\ request # NoRequest
    /\ request.tool = "export_vector_as_svg"
    /\ \E i \in 1..Len(RawPreOrder(RawLayers(psd))) :
          /\ Has(RawPreOrder(RawLayers(psd))[i], "name")
          /\ NameMatches(RawPreOrder(RawLayers(psd))[i].name, request.layerName, FALSE)
    /\ \A i \in 1..Len(RawPreOrder(RawLayers(psd))) :
          /\ Has(RawPreOrder(RawLayers(psd))[i], "name")
          /\ NameMatches(RawPreOrder(RawLayers(psd))[i].name, request.layerName, FALSE)
          => ~Has(RawPreOrder(RawLayers(psd))[i], "vectorMask")

\* a message and nothing else: no SVG text, no file
MessageOnly ==
    IF response.isError THEN DOMAIN response = {"tool", "isError", "message", "text"}
    ELSE response.notFound /\ response.svg = <<>> /\ response.written = <<>>

\* the next step answers, leaving the server idle on the same document
Served ==
    /\ request' = NoRequest
    /\ response' = NoResponse
    /\ psd' = psd

\* an idle server accepts an export request
Serving == ENABLED (\E n \in VectorQueries : ExportVectorAsSvg(n, <<>>))

\* C17: the conversion of a layer that has no vector mask fails with the
\* error "Layer does not have vector data" and gives no SVG text; at the
\* tool the caller gets a message for this one request, and the server
\* goes on to serve the next request.
C17_MissingVectorDataIsAMessage ==
    /\ [](AskedOfMaskless =>
            /\ response.isError
            /\ response.message = VectorDataMissing
            /\ MessageOnly)
    /\ [](AskedForMaskless => MessageOnly)
    /\ [][AskedOfMaskless \/ AskedForMaskless => Served]_vars
    /\ [](request = NoRequest => Serving)

\* the conversion of a layer without a vector mask has failed with the
\* error and no SVG text
C17_Witness ==
    /\ AskedOfMaskless
    /\ response = ErrorResponse("vectorLayerToSvg", VectorDataMissing)

\* a bulk export that found vector layers
BulkExported == response.tool = "export_all_vectors_as_svg" /\ ~response.noVectors

\* the vector layers the export goes through, in traversal order
Traversed == BulkVectorLayers(psd, request.groupName)

\* the export of the i-th of them succeeds: the conversion gives SVG text
\* and the file is written
Succeeds(i) ==
    /\ ~vectorLayerToSvg(Traversed[i], psd.width, psd.height).throws
    /\ i \notin request.writeFails

SucceededPositions == { i \in 1..Len(Traversed) : Succeeds(i) }

FilenamesOf(layers) == [i \in 1..Len(layers) |-> SvgFilename(layers[i])]

\* C18: in a bulk export a layer whose export fails is skipped and the
\* later layers are still exported: the list names exactly the layers whose
\* export succeeded, in traversal order, one file is written for each, and
\* the count is the length of the list.
C18_BulkSkipsFailures ==
    BulkExported =>
        /\ ~response.isError
        /\ response.exported = FilenamesOf(Picked(Traversed, SucceededPositions))
        /\ FileNames(response.written) = response.exported
        /\ response.count = Len(response.exported)

\* of three vector layers the second has failed to convert and the first
\* and the third have been exported
C18_Witness ==
    /\ BulkExported
    /\ Len(Traversed) = 3
    /\ SucceededPositions = {1, 3}
    /\ request.writeFails = {}
    /\ response.count = 2
    /\ response.exported = <<SvgFilename(Traversed[1]), SvgFilename(Traversed[3])>>

\* a lookup that matched no layer
LookupMiss ==
    /\ Found
    /\ MatchingAt(PreOrder(BuiltLayers), request.name, request.exact = <<TRUE>>) = {}

\* the first three characters of the query
Prefix3(query) == [i \in 1..(IF Len(query) < 3 THEN Len(query) ELSE 3) |-> query[i]]

\* the layers whose name contains the prefix, in pre-order
Similar == Picked(PreOrder(BuiltLayers),
                  MatchingAt(PreOrder(BuiltLayers), Prefix3(request.name), FALSE))

\* the names of the first five of them at most, separated by ", "
RECURSIVE Listed5(_, _)
Listed5(layers, k) ==
    IF k > Len(layers) \/ k > 5 THEN <<>>
    ELSE IF k = 1 THEN layers[1].name \o Listed5(layers, 2)
    ELSE <<",", " ">> \o layers[k].name \o Listed5(layers, k + 1)

\* C19: a lookup that matches no layer is not an error: the response has no
\* error flag, says that the layer was not found, and suggests the names of
\* the first five layers at most, in pre-order, whose name contains
\* case-insensitively the first three characters of the query, or "none".
C19_MissGivesSuggestions ==
    LookupMiss =>
        /\ ~response.isError
        /\ response.notFound
        /\ response.layer = <<>>
        /\ response.suggestions =
              (IF Len(Similar) = 0 THEN <<"n","o","n","e">> ELSE Listed5(Similar, 1))

\* the exact query "Hero" has missed in a document of six layers that all
\* contain "Her", and five names have been suggested
C19_Witness ==
    /\ LookupMiss
    /\ request.name = Hero
    /\ request.exact = <<TRUE>>
    /\ Len(Similar) = 6
    /\ Len(response.similar) = 5
    /\ response.suggestions = Listed5(Similar, 1)

\* what a query answers, from its arguments and the source file alone
AnswerOfLookup(p, req) ==
    IF findLayerByName(parsePsdFile(p).layers, req.name, req.exact = <<TRUE>>) = <<>>
    THEN LayerNotFound(searchLayersByName(parsePsdFile(p).layers, Prefix3(req.name)))
    ELSE LayerFound(findLayerByName(parsePsdFile(p).layers, req.name,
                                    req.exact = <<TRUE>>)[1])

AnswerOfChildren(p, req) ==
    IF findLayerByName(parsePsdFile(p).layers, req.groupName, FALSE) = <<>>
    THEN GroupNotFound(req.groupName)
    ELSE IF FirstMatching(PreOrder(parsePsdFile(p).layers), req.groupName,
                          FALSE)[1].children \notin {<<>>, << <<>> >>}
    THEN ChildrenOf(findLayerByName(parsePsdFile(p).layers, req.groupName, FALSE)[1],
                    req.format)
    ELSE NoChildren(findLayerByName(parsePsdFile(p).layers, req.groupName, FALSE)[1])

AnswerOfHero(p, req) ==
    Categorized(parsePsdFile(p),
                HeroLayers(parsePsdFile(p).layers, req.heroGroupName),
                SortBySize(getTextLayers(
                    HeroLayers(parsePsdFile(p).layers, req.heroGroupName))))

Answer(p, req) ==
    CASE req.tool = "parse_psd" ->
            [tool |-> "parse_psd", psdInfo |-> parsePsdFile(p)]
      [] req.tool = "list_layers" ->
            [ tool         |-> "list_layers",
              width        |-> parsePsdFile(p).width,
              height       |-> parsePsdFile(p).height,
              layersToShow |-> LayersToShow(parsePsdFile(p).layers, req.depth),
              tree         |-> formatLayerTree(
                                   LayersToShow(parsePsdFile(p).layers, req.depth), <<>>) ]
      [] req.tool = "get_layer_by_name" -> AnswerOfLookup(p, req)
      [] req.tool = "get_layer_children" -> AnswerOfChildren(p, req)
      [] req.tool = "get_text_layers" ->
            [ tool         |-> "get_text_layers",
              isError      |-> FALSE,
              documentSize |-> [ width  |-> parsePsdFile(p).width,
                                 height |-> parsePsdFile(p).height ],
              textLayers   |-> getTextLayers(parsePsdFile(p).layers) ]
      [] req.tool = "get_hero_section" -> AnswerOfHero(p, req)
      [] req.tool = "extract_colors" ->
            [ tool     |-> "extract_colors",
              palette  |-> extractAllColors(RawLayers(p)),
              noColors |-> Len(extractAllColors(RawLayers(p)).uniqueColors) = 0
                           /\ Len(extractAllColors(RawLayers(p)).gradients) = 0 ]

Childless(layer) == [layer EXCEPT !.children = <<>>]

\* the name that reports k children, k a single digit
CountName(k) ==
    <<".", ".", ".", " ", "(", DecDigits[k + 1],
      " ", "c", "h", "i", "l", "d", "r", "e", "n", ")">>

\* the children of a cut layer are one placeholder for k elided children
IsPlaceholderFor(children, k) ==
    /\ children # <<>>
    /\ Len(children[1]) = 1
    /\ children[1][1].name = CountName(k)
    /\ children[1][1].type = "unknown"
    /\ children[1][1].children = <<>>

\* result is the forest cut below maxDepth, the layers of both being at
\* depth
RECURSIVE IsCut(_, _, _, _)
IsCut(forest, result, depth, maxDepth) ==
    /\ Len(result) = Len(forest)
    /\ \A i \in 1..Len(forest) :
          /\ Childless(result[i]) = Childless(forest[i])
          /\ IF depth < maxDepth
             THEN IF forest[i].children = <<>> THEN result[i].children = <<>>
                  ELSE /\ result[i].children # <<>>
                       /\ IsCut(forest[i].children[1], result[i].children[1],
                                depth + 1, maxDepth)
             ELSE forest[i].children # <<>> /\ Len(forest[i].children[1]) > 0
                     => IsPlaceholderFor(result[i].children, Len(forest[i].children[1]))

\* the pre-order numbers of the layers of a forest down to a depth; the
\* layers of the documents carry theirs as their left edge, a placeholder 0
RECURSIVE NumbersDownTo(_, _)
NumbersDownTo(forest, levels) ==
    UNION { {forest[i].bounds.left}
              \cup (IF levels > 0 /\ forest[i].children # <<>>
                    THEN NumbersDownTo(forest[i].children[1], levels - 1) ELSE {}) :
            i \in 1..Len(forest) }

\* C21: limitDepth(tree, maxDepth), the top-level layers being at depth 0,
\* replaces the children of every layer at depth maxDepth that has some by
\* one placeholder of type unknown, without children, named after their
\* number; layers above that depth keep their children in order; no layer
\* from below maxDepth is in the result.  (The result is built from new
\* layers and nothing is assigned to a given one, so the tree given is left
\* as it was.)
C21_CutAtMaxDepth ==
    Limited =>
        \A forest \in { BuiltLayers } :
            /\ IsCut(forest, response.layers, 0, request.maxDepth)
            /\ NumbersDownTo(response.layers, MaxNodes) \ {0}
                  = NumbersDownTo(forest, request.maxDepth)

\* a tree three levels deep has been cut at depth 1: the top-level layer
\* keeps its child, and the child has a placeholder for its own child
C21_Witness ==
    /\ Limited
    /\ request.maxDepth = 1
    /\ MaxDepthOf(BuiltLayers) = 2
    /\ Len(BuiltLayers) = 1
    /\ Childless(response.layers[1].children[1][1]) = Childless(BuiltLayers[1].children[1][1])
    /\ IsPlaceholderFor(response.layers[1].children[1][1].children, 1)

\* the three points of a knot, scaled to the document: the prev anchor, the
\* anchor and the next anchor
PrevOf(knot, w, h)   == << toFixed2(knot.points[1], w), toFixed2(knot.points[2], h) >>
AnchorOf(knot, w, h) == << toFixed2(knot.points[3], w), toFixed2(knot.points[4], h) >>
NextOf(knot, w, h)   == << toFixed2(knot.points[5], w), toFixed2(knot.points[6], h) >>

\* the successor of knot i among n, counted from 1
Successor(i, n) == IF i = n THEN 1 ELSE i + 1

\* the commands the claim gives one sub-path
ExpectedSubPath(path, w, h) ==
    IF Len(path.knots) = 0 THEN <<>>
    ELSE << [op |-> "M", args |-> AnchorOf(path.knots[1], w, h)] >>
         \o [i \in 1..(IF MarkedOpen(path) THEN Len(path.knots) - 1 ELSE Len(path.knots)) |->
                [ op   |-> "C",
                  args |-> NextOf(path.knots[i], w, h)
                           \o PrevOf(path.knots[Successor(i, Len(path.knots))], w, h)
                           \o AnchorOf(path.knots[Successor(i, Len(path.knots))], w, h) ]]
         \o (IF MarkedOpen(path) THEN <<>> ELSE << [op |-> "Z", args |-> <<>>] >>)

ExpectedPath(paths, w, h) ==
    Flatten([k \in 1..Len(paths) |-> ExpectedSubPath(paths[k], w, h)])

FirstControl(curve) == <<curve.args[1], curve.args[2]>>
EndPoint(curve)     == <<curve.args[5], curve.args[6]>>

\* the move-to that opens the sub-path of the command at position j
MoveBefore(d, j) ==
    d[CHOOSE m \in 1..j : d[m].op = "M" /\ \A k \in (m + 1)..j : d[k].op # "M"]

\* every close follows a curve that ends where its sub-path began
ClosedAtStart(d) ==
    \A j \in 2..Len(d) :
        d[j].op = "Z" => d[j - 1].op = "C" /\ EndPoint(d[j - 1]) = MoveBefore(d, j).args

\* of two curves in a row the second starts at the next anchor of the knot
\* at whose anchor the first ends
Chained(d, paths, w, h) ==
    \A j \in 1..(Len(d) - 1) :
        d[j].op = "C" /\ d[j + 1].op = "C" =>
            \E k \in 1..Len(paths) : \E i \in 1..Len(paths[k].knots) :
                /\ EndPoint(d[j]) = AnchorOf(paths[k].knots[i], w, h)
                /\ FirstControl(d[j + 1]) = NextOf(paths[k].knots[i], w, h)

\* C22: the move-to of a sub-path targets the anchor of its first knot; the
\* curve of knot i, s being its successor (the first knot after the last),
\* has the next anchor of knot i as first control point, the prev anchor of
\* knot s as second and the anchor of knot s as end point; so the last
\* curve of a closed sub-path ends at the move-to point and the curves are
\* chained; the sub-paths of a mask follow one another in mask order, each
\* with its own move-to.
C22_CurvesFromKnots ==
    Converted =>
        \A paths \in { RawLayers(psd)[1].vectorMask.paths } :
            /\ response.svg[1].d = ExpectedPath(paths, psd.width, psd.height)
            /\ ClosedAtStart(response.svg[1].d)
            /\ Chained(response.svg[1].d, paths, psd.width, psd.height)

\* a mask of a closed sub-path of three knots and an open one of two has
\* been converted: the third curve ends at the first move-to point, and the
\* second sub-path has its own move-to
C22_Witness ==
    /\ Converted
    /\ RawLayers(psd)[1].vectorMask.paths
          = << [knots |-> KnotsOf(3), open |-> FALSE], [knots |-> KnotsOf(2), open |-> TRUE] >>
    /\ Ops(response.svg[1].d) = <<"M", "C", "C", "C", "Z", "M", "C">>
    /\ EndPoint(response.svg[1].d[4]) = response.svg[1].d[1].args
    /\ FirstControl(response.svg[1].d[3]) = NextOf(Knot(2), psd.width, psd.height)
    /\ response.svg[1].d[6].args = AnchorOf(Knot(1), psd.width, psd.height)

\* the place of a source in the order text fill, vector fill, vector
\* stroke, drop shadows, inner shadows, outer glow, inner glow, solid-fill
\* overlays, stroke effects, satin, gradient overlays
SourceOrder ==
    << {"text"}, {"vector-fill", "vector-fill-gradient"},
       {"vector-stroke", "vector-stroke-gradient"}, {"drop-shadow"}, {"inner-shadow"},
       {"outer-glow"}, {"inner-glow"}, {"color-overlay"},
       {"stroke-effect", "stroke-gradient"}, {"satin"}, {"gradient-overlay"} >>
SourceRank(source) == CHOOSE k \in 1..Len(SourceOrder) : source.base \in SourceOrder[k]

\* entries in source order: by category, and within a category by index
InSourceOrder(entries) ==
    \A i \in 1..Len(entries), j \in 1..Len(entries) :
        i < j =>
            \/ SourceRank(entries[i].source) < SourceRank(entries[j].source)
            \/ /\ SourceRank(entries[i].source) = SourceRank(entries[j].source)
               /\ entries[i].source.suffix < entries[j].source.suffix

\* the name entries of a layer carry
NameOrUnnamed(layer) ==
    IF "name" \in DOMAIN layer /\ layer.name # <<>> THEN layer.name
    ELSE <<"U","n","n","a","m","e","d">>

NamedAfter(entries, layer) ==
    \A i \in 1..Len(entries) : entries[i].layerName = NameOrUnnamed(layer)

\* what each layer contributes, the layers taken in pre-order
ContributionsOf(order) ==
    [k \in 1..Len(order) |-> extractColorsFromLayer(order[k], NameOrUnnamed(order[k]))]

InVisitOrder(palette, order, per) ==
    /\ palette.solidColors = Flatten([k \in 1..Len(order) |-> per[k].colors])
    /\ palette.gradients = Flatten([k \in 1..Len(order) |-> per[k].gradients])
    /\ \A k \in 1..Len(order) :
          /\ InSourceOrder(per[k].colors)
          /\ InSourceOrder(per[k].gradients)
          /\ NamedAfter(per[k].colors, order[k])
          /\ NamedAfter(per[k].gradients, order[k])

\* C23: the harvest visits the layers depth-first in pre-order, so that in
\* solidColors and in gradients the entries of a layer come before those of
\* its descendants and of its later siblings; the entries of one layer
\* follow the order text fill, vector fill, vector stroke, drop shadows,
\* inner shadows, outer glow, inner glow, solid-fill overlays, stroke
\* effects, satin, gradient overlays; each entry carries the name of its
\* layer, "Unnamed" when the layer has none.
C23_HarvestOrder ==
    Harvested =>
        \A order \in { RawPreOrder(RawLayers(psd)) } :
            \A per \in { ContributionsOf(order) } :
                InVisitOrder(response.palette, order, per)

LayerNamesOf(entries) == [i \in 1..Len(entries) |-> entries[i].layerName]

\* a group with an overlay of its own, a text and an unnamed layer in it
\* and a vector layer behind it: the colours come group, text, vector layer
C23_Witness ==
    /\ Harvested
    /\ Len(RawLayers(psd)) = 2
    /\ "children" \in DOMAIN RawLayers(psd)[1]
    /\ Len(RawLayers(psd)[1].children) = 2
    /\ NameOrUnnamed(RawLayers(psd)[1].children[1]) = Title
    /\ "name" \notin DOMAIN RawLayers(psd)[1].children[2]
    /\ NameOrUnnamed(RawLayers(psd)[2]) = Logo
    /\ LayerNamesOf(response.palette.solidColors)
          = <<HeroSection, Title, Logo, Logo, Logo, Logo>>

\* the effect categories: the property of layer.effects, whether it holds
\* an array, and the names of its colour and gradient sources
EffectCategories ==
    { [f |-> "dropShadow",      array |-> TRUE,  color |-> "drop-shadow",   gradient |-> ""],
      [f |-> "innerShadow",     array |-> TRUE,  color |-> "inner-shadow",  gradient |-> ""],
      [f |-> "outerGlow",       array |-> FALSE, color |-> "outer-glow",    gradient |-> ""],
      [f |-> "innerGlow",       array |-> FALSE, color |-> "inner-glow",    gradient |-> ""],
      [f |-> "solidFill",       array |-> TRUE,  color |-> "color-overlay", gradient |-> ""],
      [f |-> "stroke",          array |-> TRUE,  color |-> "stroke-effect",
                                                 gradient |-> "stroke-gradient"],
      [f |-> "satin",           array |-> FALSE, color |-> "satin",         gradient |-> ""],
      [f |-> "gradientOverlay", array |-> TRUE,  color |-> "",
                                                 gradient |-> "gradient-overlay"] }

\* the entries of a category in a layer, a single effect being one entry
EntriesOf(layer, cat) ==
    IF "effects" \notin DOMAIN layer \/ cat.f \notin DOMAIN layer.effects THEN <<>>
    ELSE IF cat.array THEN layer.effects[cat.f]
    ELSE <<layer.effects[cat.f]>>

NotDisabled(entry) == ~("enabled" \in DOMAIN entry /\ entry.enabled = FALSE)

\* the source of the entry at position i, counted from 1, of its array
SourceAt(base, i) == [base |-> base, suffix |-> IF i = 1 THEN 0 ELSE i]

\* some stop of the gradient normalizes
SomeStopNormalizes(gradient) ==
    /\ "colorStops" \in DOMAIN gradient
    /\ \E s \in 1..Len(gradient.colorStops) :
          anyColorToHex(Get(gradient.colorStops[s], "color")) # <<>>

\* the entry contributes its colour: it is not disabled and carries one
\* (and the colour normalizes, without which nothing is recorded)
ContributesColor(entry) ==
    /\ NotDisabled(entry)
    /\ "color" \in DOMAIN entry
    /\ anyColorToHex(<<entry.color>>) # <<>>

ContributesGradient(entry) ==
    /\ NotDisabled(entry)
    /\ "gradient" \in DOMAIN entry
    /\ SomeStopNormalizes(entry.gradient)

\* the palette has the colour of entry i of the category in the layer
HasColorOf(palette, layer, cat, i) ==
    \E e \in 1..Len(palette.solidColors) :
        /\ palette.solidColors[e].layerName = NameOrUnnamed(layer)
        /\ palette.solidColors[e].source = SourceAt(cat.color, i)
        /\ <<palette.solidColors[e].hex>>
              = <<anyColorToHex(<<EntriesOf(layer, cat)[i].color>>)>>

HasGradientOf(palette, layer, cat, i) ==
    \E e \in 1..Len(palette.gradients) :
        /\ palette.gradients[e].layerName = NameOrUnnamed(layer)
        /\ palette.gradients[e].source = SourceAt(cat.gradient, i)

\* every contributing entry is in the palette under its source
EffectsRecorded(palette, order) ==
    \A k \in 1..Len(order) : \A cat \in EffectCategories :
        \A i \in 1..Len(EntriesOf(order[k], cat)) :
            /\ cat.color # "" /\ ContributesColor(EntriesOf(order[k], cat)[i])
                  => HasColorOf(palette, order[k], cat, i)
            /\ cat.gradient # "" /\ ContributesGradient(EntriesOf(order[k], cat)[i])
                  => HasGradientOf(palette, order[k], cat, i)

\* the position in its array of the entry a source names; 0 for the suffix
\* 1, which no source carries
PositionOf(source) ==
    IF source.suffix = 0 THEN 1 ELSE IF source.suffix = 1 THEN 0 ELSE source.suffix

\* a layer of that name has a contributing entry at the place the source
\* names
ColorComesFrom(entry, order) ==
    \E k \in 1..Len(order) : \E cat \in EffectCategories :
        /\ NameOrUnnamed(order[k]) = entry.layerName
        /\ cat.color = entry.source.base
        /\ PositionOf(entry.source) \in 1..Len(EntriesOf(order[k], cat))
        /\ ContributesColor(EntriesOf(order[k], cat)[PositionOf(entry.source)])
        /\ <<entry.hex>>
              = <<anyColorToHex(<<EntriesOf(order[k], cat)[PositionOf(entry.source)].color>>)>>

GradientComesFrom(entry, order) ==
    \E k \in 1..Len(order) : \E cat \in EffectCategories :
        /\ NameOrUnnamed(order[k]) = entry.layerName
        /\ cat.gradient = entry.source.base
        /\ PositionOf(entry.source) \in 1..Len(EntriesOf(order[k], cat))
        /\ ContributesGradient(EntriesOf(order[k], cat)[PositionOf(entry.source)])

EffectSources == { cat.color : cat \in EffectCategories } \ {""}
EffectGradientSources == { cat.gradient : cat \in EffectCategories } \ {""}

\* every effect entry of the palette comes from a contributing entry
OnlyEffectsRecorded(palette, order) ==
    /\ \A e \in 1..Len(palette.solidColors) :
          palette.solidColors[e].source.base \in EffectSources
             => ColorComesFrom(palette.solidColors[e], order)
    /\ \A e \in 1..Len(palette.gradients) :
          palette.gradients[e].source.base \in EffectGradientSources
             => GradientComesFrom(palette.gradients[e], order)

\* C24: an effect entry contributes if and only if its enabled flag is not
\* false (an absent flag counts as enabled) and it carries a colour or a
\* gradient; the source of the entry at index 0 of its array is the name of
\* the category, and of the entry at index i > 0 the name followed by
\* -(i+1), the index being the place in the raw array whatever the number of
\* disabled entries before it.
C24_EffectEntries ==
    Harvested =>
        \A order \in { RawPreOrder(RawLayers(psd)) } :
            /\ EffectsRecorded(response.palette, order)
            /\ OnlyEffectsRecorded(response.palette, order)

SourcesOf(entries) == [i \in 1..Len(entries) |-> entries[i].source]

\* of three drop shadows the second is disabled: the third is recorded as
\* drop-shadow-3, the first as drop-shadow, and there is no drop-shadow-2
C24_Witness ==
    /\ Harvested
    /\ Len(RawLayers(psd)) = 1
    /\ NameOrUnnamed(RawLayers(psd)[1]) = Logo
    /\ Len(EntriesOf(RawLayers(psd)[1], [f |-> "dropShadow", array |-> TRUE])) = 3
    /\ ~NotDisabled(RawLayers(psd)[1].effects.dropShadow[2])
    /\ SourcesOf(response.palette.solidColors)
          = << [base |-> "vector-fill", suffix |-> 0],
               [base |-> "drop-shadow", suffix |-> 0],
               [base |-> "drop-shadow", suffix |-> 3],
               [base |-> "inner-shadow", suffix |-> 0] >>

\* the solid contributions of a layer: the source and the colour handed to
\* the normalizer (none when the descriptor carries no colour)
FillOfText(layer) ==
    IF "text" \in DOMAIN layer /\ "style" \in DOMAIN layer.text
       /\ "fillColor" \in DOMAIN layer.text.style
    THEN { [source |-> SourceAt("text", 1), color |-> <<layer.text.style.fillColor>>] }
    ELSE {}

IsSolidContent(content) == "type" \in DOMAIN content /\ content.type = "color"
IsGradientContent(content) == ~IsSolidContent(content) /\ "colorStops" \in DOMAIN content

StrokeContent(layer) ==
    IF "vectorStroke" \in DOMAIN layer /\ "content" \in DOMAIN layer.vectorStroke
    THEN <<layer.vectorStroke.content>> ELSE <<>>

SolidOfContent(content, base) ==
    IF content # <<>> /\ IsSolidContent(content[1])
    THEN { [source |-> SourceAt(base, 1), color |-> Get(content[1], "color")] }
    ELSE {}

GradientOfContent(content, base) ==
    IF content # <<>> /\ IsGradientContent(content[1])
    THEN { [source |-> SourceAt(base, 1), gradient |-> content[1]] }
    ELSE {}

SolidOfEffects(layer) ==
    UNION { { [source |-> SourceAt(cat.color, i),
               color  |-> <<EntriesOf(layer, cat)[i].color>>] :
              i \in { j \in 1..Len(EntriesOf(layer, cat)) :
                        /\ NotDisabled(EntriesOf(layer, cat)[j])
                        /\ "color" \in DOMAIN EntriesOf(layer, cat)[j] } } :
            cat \in { c \in EffectCategories : c.color # "" } }

GradientOfEffects(layer) ==
    UNION { { [source   |-> SourceAt(cat.gradient, i),
               gradient |-> EntriesOf(layer, cat)[i].gradient] :
              i \in { j \in 1..Len(EntriesOf(layer, cat)) :
                        /\ NotDisabled(EntriesOf(layer, cat)[j])
                        /\ "gradient" \in DOMAIN EntriesOf(layer, cat)[j] } } :
            cat \in { c \in EffectCategories : c.gradient # "" } }

SolidContributions(layer) ==
    FillOfText(layer)
        \cup SolidOfContent(Get(layer, "vectorFill"), "vector-fill")
        \cup SolidOfContent(StrokeContent(layer), "vector-stroke")
        \cup SolidOfEffects(layer)

GradientContributions(layer) ==
    GradientOfContent(Get(layer, "vectorFill"), "vector-fill-gradient")
        \cup GradientOfContent(StrokeContent(layer), "vector-stroke-gradient")
        \cup GradientOfEffects(layer)

\* the hexes of the stops that normalize, in stop order
RECURSIVE NormalizedFrom(_, _)
NormalizedFrom(stops, i) ==
    IF i > Len(stops) THEN <<>>
    ELSE (IF anyColorToHex(Get(stops[i], "color")) # <<>>
          THEN <<anyColorToHex(Get(stops[i], "color"))>> ELSE <<>>)
         \o NormalizedFrom(stops, i + 1)
NormalizedStops(gradient) ==
    IF "colorStops" \in DOMAIN gradient THEN NormalizedFrom(gradient.colorStops, 1)
    ELSE <<>>

\* the entries recorded under a source
UnderSource(entries, source) == { i \in 1..Len(entries) : entries[i].source = source }

\* recorded is what one layer recorded; its solid contributions are in it
\* exactly when their colour normalizes
SolidsRecorded(recorded, layer) ==
    /\ \A c \in SolidContributions(layer) :
          IF anyColorToHex(c.color) # <<>>
          THEN \E i \in UnderSource(recorded, c.source) :
                  recorded[i].hex = anyColorToHex(c.color)
          ELSE UnderSource(recorded, c.source) = {}
    /\ \A i \in 1..Len(recorded) :
          \E c \in SolidContributions(layer) : c.source = recorded[i].source

GradientsRecorded(recorded, layer) ==
    /\ \A g \in GradientContributions(layer) :
          IF NormalizedStops(g.gradient) # <<>>
          THEN \E i \in UnderSource(recorded, g.source) :
                  recorded[i].colors = NormalizedStops(g.gradient)
          ELSE UnderSource(recorded, g.source) = {}
    /\ \A i \in 1..Len(recorded) :
          \E g \in GradientContributions(layer) : g.source = recorded[i].source

\* a recorded gradient has a colour, and none of its colours is none
NeverEmpty(gradients) ==
    \A i \in 1..Len(gradients) :
        /\ Len(gradients[i].colors) > 0
        /\ \A j \in 1..Len(gradients[i].colors) : gradients[i].colors[j] # <<>>

RecordedIfNormalized(palette, order, per) ==
    /\ palette.solidColors = Flatten([k \in 1..Len(order) |-> per[k].colors])
    /\ palette.gradients = Flatten([k \in 1..Len(order) |-> per[k].gradients])
    /\ NeverEmpty(palette.gradients)
    /\ \A k \in 1..Len(order) :
          /\ SolidsRecorded(per[k].colors, order[k])
          /\ GradientsRecorded(per[k].gradients, order[k])

\* C25: a gradient contribution is recorded if and only if at least one of
\* its stops normalizes, with the hexes of exactly the stops that normalize,
\* in stop order, as its colours; so a recorded gradient has at least one
\* colour and none of its colours is none.  A solid contribution is recorded
\* if and only if its colour normalizes.
C25_RecordedIffNormalized ==
    Harvested =>
        \A order \in { RawPreOrder(RawLayers(psd)) } :
            \A per \in { ContributionsOf(order) } :
                RecordedIfNormalized(response.palette, order, per)

\* a layer whose text and first overlay have colours that do not normalize
\* and whose second overlay is red: of the three only the second overlay is
\* recorded
C25_Witness ==
    /\ Harvested
    /\ Len(RawLayers(psd)) = 1
    /\ NameOrUnnamed(RawLayers(psd)[1]) = Slash
    /\ Cardinality(SolidContributions(RawLayers(psd)[1])) = 4
    /\ SourcesOf(response.palette.solidColors)
          = << [base |-> "outer-glow", suffix |-> 0],
               [base |-> "color-overlay", suffix |-> 2] >>
    /\ Len(response.palette.gradients) = 1
    /\ Len(response.palette.gradients[1].colors) = 2

\* the stroke of the layer is not disabled: strokeEnabled is not false
StrokeNotDisabled(layer) ==
    ~(Has(layer.vectorStroke, "strokeEnabled") /\ layer.vectorStroke.strokeEnabled = FALSE)

\* the width of the stroke is present and greater than zero
StrokeWidthPositive(layer) ==
    /\ Has(layer.vectorStroke, "lineWidth")
    /\ Has(layer.vectorStroke.lineWidth, "value")
    /\ layer.vectorStroke.lineWidth.value > 0

\* the colour of the stroke resolves: a solid content with channels r, g, b
StrokeColorResolves(layer) ==
    /\ Has(layer.vectorStroke, "content")
    /\ Has(layer.vectorStroke.content, "type")
    /\ layer.vectorStroke.content.type = "color"
    /\ Has(layer.vectorStroke.content.color, "r")

StrokeDrawn(layer) ==
    /\ Has(layer, "vectorStroke")
    /\ StrokeNotDisabled(layer)
    /\ StrokeWidthPositive(layer)
    /\ StrokeColorResolves(layer)

\* the attributes are the colour and the width of the stroke, and the line
\* cap and the line join exactly when the stroke has them
AttributesOfStroke(attrs, stroke) ==
    /\ IsRgbOf(attrs.stroke, stroke.content.color)
    /\ attrs.width = stroke.lineWidth.value
    /\ attrs.linecap = (IF Has(stroke, "lineCapType") THEN <<stroke.lineCapType>> ELSE <<>>)
    /\ attrs.linejoin = (IF Has(stroke, "lineJoinType") THEN <<stroke.lineJoinType>> ELSE <<>>)

\* C26: the emitted SVG carries stroke attributes (the colour, the width,
\* and the line cap and line join when the stroke has them) exactly when
\* the stroke of the layer is not disabled, its width is greater than zero
\* and its colour resolves; with strokeEnabled false, or a width that is
\* zero or absent, there is no stroke attribute at all. The width, the
\* height and the viewBox of the svg element are those of the document.
C26_StrokeOnlyWhenDrawn ==
    Emitted =>
        /\ IF StrokeDrawn(FirstLayer)
           THEN /\ Len(response.svg[1].stroke) = 1
                /\ AttributesOfStroke(response.svg[1].stroke[1], FirstLayer.vectorStroke)
           ELSE response.svg[1].stroke = <<>>
        /\ response.svg[1].width = psd.width
        /\ response.svg[1].height = psd.height
        /\ response.svg[1].viewBox = <<0, 0, psd.width, psd.height>>

\* a layer whose stroke is coloured and wide but disabled has been emitted
\* without stroke attributes, in a document of 64 by 32 pixels
C26_Witness ==
    /\ Emitted
    /\ Has(FirstLayer, "vectorStroke")
    /\ ~StrokeNotDisabled(FirstLayer)
    /\ StrokeWidthPositive(FirstLayer)
    /\ StrokeColorResolves(FirstLayer)
    /\ response.svg[1].stroke = <<>>
    /\ response.svg[1].viewBox = <<0, 0, 64, 32>>

\* a sub-scope name is requested: heroGroupName is given and is not empty
NameRequested == request.heroGroupName \notin { <<>>, << <<>> >> }

\* the first layer of the document, in depth-first pre-order, whose name
\* contains the requested name case-insensitively
FirstNamed(top) ==
    IF NameRequested
    THEN FirstMatching(PreOrder(top), request.heroGroupName[1], FALSE)
    ELSE <<>>

ScopeOf(named, top) ==
    IF named = <<>> THEN top
    ELSE IF named[1].children # <<>> /\ Len(named[1].children[1]) > 0
    THEN named[1].children[1]
    ELSE << named[1] >>

RolesGiven == response.heading \o response.subheading \o response.body

\* C29: heading, subheading and body partition the text layers of the
\* scope: every text layer reachable in the scope, at any depth and also
\* below another text layer, has exactly one role, no layer has two, no
\* layer that is not a text has one, and there are as many roles as
\* flattened text layers.
C29_RolesPartitionTexts ==
    Classified =>
        \A texts \in { ScopeTexts } :
        \A roles \in { RolesGiven } :
            /\ Len(roles) = Len(texts)
            /\ \A i \in 1..Len(texts) :
                  Cardinality({ k \in 1..Len(roles) : roles[k] = texts[i] }) = 1
            /\ \A j, k \in 1..Len(roles) : j # k => roles[j] # roles[k]
            /\ \A k \in 1..Len(roles) :
                  /\ roles[k].type = "text"
                  /\ \E i \in 1..Len(texts) : texts[i] = roles[k]

\* a text without a font size has a text of size 64 as its child, next to
\* a box with a text of size 24 inside and a plain layer: the child is the
\* heading, the text of the box the subheading, the parent the body
C29_Witness ==
    /\ Classified
    /\ \E scope \in { Scope } :
          /\ Len(scope) = 3
          /\ scope[1].type = "text" /\ scope[1].children # <<>>
          /\ scope[2].type = "group"
          /\ scope[3].type = "image"
          /\ response.heading = << scope[1].children[1][1] >>
          /\ response.subheading = << scope[2].children[1][1] >>
          /\ response.body = << scope[1] >>

\* C28: for every tree and query, findLayerByName without exact returns the
\* first element of searchLayersByName of the same query, and none exactly
\* when that search is empty; a layer returned by findLayerByName with
\* exact is an element of searchLayersByName of the same query.
C28_FindAgreesWithSearch ==
    Found =>
        \A results \in { searchLayersByName(BuiltLayers, request.name) } :
            IF request.exact = <<TRUE>>
            THEN response.layer # <<>> =>
                    \E i \in 1..Len(results) : results[i] = response.layer[1]
            ELSE /\ response.layer = <<>> <=> results = <<>>
                 /\ results # <<>> => response.layer = << results[1] >>

\* "hero" was looked for in a tree holding the group "Hero Section" with a
\* child named "hero": without exact the group, the first of the two
\* layers found by the search, was returned
C28_Witness ==
    /\ Found
    /\ request.name = hero
    /\ request.exact # <<TRUE>>
    /\ \E results \in { searchLayersByName(BuiltLayers, hero) } :
          /\ Len(results) >= 2
          /\ results[1].name = HeroSection
          /\ results[2].name = hero
          /\ response.layer = << results[1] >>

\* the request names a tool that the server does not have
AskedUnknown == request # NoRequest /\ request.tool \in UnknownNames

\* the request names a tool of the server and its source file does not
\* exist, or is rejected by the decoder
AskedOfMissing ==
    /\ request # NoRequest /\ request.tool \notin UnknownNames
    /\ Has(psd, "exists") /\ ~psd.exists
AskedOfRejected ==
    /\ request # NoRequest /\ request.tool \notin UnknownNames
    /\ Has(psd, "rejected")

\* the export was asked of a vector layer whose mask carries no paths, which
\* raises an error while the request is handled
AskedOfPathless ==
    /\ request # NoRequest
    /\ request.tool = "export_vector_as_svg"
    /\ Has(psd, "children")
    /\ \E i \in 1..Len(RawPreOrder(psd.children)) :
          /\ Has(RawPreOrder(psd.children)[i], "name")
          /\ NameMatches(RawPreOrder(psd.children)[i].name, request.layerName, FALSE)
          /\ Has(RawPreOrder(psd.children)[i], "vectorMask")
          /\ ~Has(RawPreOrder(psd.children)[i].vectorMask, "paths")
          /\ \A j \in 1..(i - 1) :
                ~(/\ Has(RawPreOrder(psd.children)[j], "name")
                  /\ NameMatches(RawPreOrder(psd.children)[j].name,
                                 request.layerName, FALSE)
                  /\ Has(RawPreOrder(psd.children)[j], "vectorMask"))

\* the response is flagged as an error and its text is "Error: <message>"
IsErrorOf(message) ==
    /\ Has(response, "isError") /\ response.isError
    /\ response.text = <<"Error: ", message>>

\* an idle server accepts a request, whatever the source file is
Accepting ==
    ENABLED (\/ \E name \in UnknownNames : UnknownTool(name)
             \/ SourceFails("parse_psd")
             \/ ~OpenPsd(psd).throws /\ ParsePsd)

\* C30: every tool call ends with exactly one response and no exception
\* leaves the handler: an unknown tool name, a source file that does not
\* exist, and an error raised by the decoder or while the request is
\* handled give a response with isError set and the text "Error: <message>";
\* after such a response the server handles the next request normally.
C30_ErrorsAreResponses ==
    /\ [](request # NoRequest => response # NoResponse /\ response.tool = request.tool)
    /\ [](AskedUnknown => \E name \in UnknownNames :
                             /\ request.tool = name
                             /\ IsErrorOf(UnknownToolMessage(name)))
    /\ [](AskedOfMissing => IsErrorOf("File not found: absolutePath"))
    /\ [](AskedOfRejected => IsErrorOf(psd.rejected))
    /\ [](AskedOfPathless => IsErrorOf("TypeError"))
    /\ [][request # NoRequest => Served]_vars
    /\ [](request = NoRequest => response = NoResponse /\ Accepting)

\* parse_psd was asked of a path that names no file and has been answered
\* with the flagged text "Error: File not found: <path>"
C30_Witness ==
    /\ request # NoRequest
    /\ request.tool = "parse_psd"
    /\ psd = NoFile
    /\ response.isError
    /\ response.text = <<"Error: ", FileNotFound>>


====
